---- MODULE Spec2Model ----
(***************************************************************************)
(* Audion (src-tauri): the adaptive streaming batch-migration pipeline.    *)
(*                                                                         *)
(*   - calculate_batch_size        commands/covers.rs, commands/library.rs *)
(*   - migrate_covers_to_files     commands/covers.rs                      *)
(*   - merge_duplicate_covers      commands/covers.rs                      *)
(*   - rescan_music (cleanup)      commands/library.rs, db/queries.rs      *)
(*   - delete_track                commands/library.rs                     *)
(*   - cleanup_orphaned_covers     scanner/cover_storage.rs                *)
(*   - sync_cover_paths_from_files commands/covers.rs                      *)
(*   - ImageFormat, save_*_cover   scanner/cover_storage.rs                *)
(*   - scan_directory              scanner/walker.rs                       *)
(*                                                                         *)
(* Specifications:                                                         *)
(*   BatchSpec  the pure function calculate_batch_size over bounded inputs *)
(*   Spec       migrate_covers_to_files: enumerator, pool workers, bounded *)
(*              channel, assembler, store transactions, process crash      *)
(*   LiveSpec   the same run with a healthy engine under fair scheduling   *)
(*   RampSpec   the progress ramp of calculate_batch_size at neutral depth *)
(*   RescanSpec the cleanup phase of rescan_music                          *)
(*   ClearSpec  the migration with clear_base64_covers called at any time   *)
(*   MergeLiveSpec  MergeSpec under fair scheduling                         *)
(*   MergeSpec  merge_duplicate_covers: analysis workers, bounded channel, *)
(*              consumer, one transaction per duplicate set                *)
(*   LibrarySpec one merge beside delete_track, cleanup_deleted_tracks and *)
(*              cleanup_orphaned_covers                                    *)
(*   FillSpec   the assembler's loop of migrate_covers_to_files by the     *)
(*              sizes of its queue and batches, more rows than one target  *)
(*   SniffSpec  ImageFormat::from_bytes and save_track_cover/save_album_art *)
(*              on bounded byte strings                                    *)
(*   ScanLiveSpec  the pipeline of rescan_music by counts, fair scheduling  *)
(*   ShareLiveSpec  the rescan beside a merge on one pool and one lock      *)
(*   SyncSpec   sync_cover_paths_from_files over bounded directories        *)
(*   WalkSpec   scan_directory and is_supported_audio_file on bounded file  *)
(*              names                                                      *)
(*   EtaSpec    the ETA of the snapshots of migrate_covers_to_files and of *)
(*              sync_cover_paths_from_files at a constant time per item    *)
(***************************************************************************)
EXTENDS Integers, Sequences, FiniteSets, TLC

(***************************************************************************)
(* Bounds of the model                                                     *)
(***************************************************************************)
\* items_processed is enumerated densely up to MaxFineP, then every
\* CoarseStride up to MaxFineP + CoarseStride * MaxCoarseSteps
MaxFineP == 2100
MaxCoarseSteps == 101
\* queue depths 0..MaxDepth (above 3 * 150, the largest scale-up threshold)
MaxDepth == 455
\* rows with a cover column, alternately of the tracks and the albums table
MaxItems == 2
\* threads of the rayon pool
PoolSize == 2
\* capacity of the bounded channel (bounded(500) in the source)
ChanCap == 1
\* invocations of migrate_covers_to_files in one behaviour
MaxRuns == 2
\* rows of the tracks table seen by the cleanup phase of rescan_music
MaxRescanTracks == 3
\* albums of the duplicate merge, tracks per album, capacity standing for
\* bounded(100)
MaxMergeAlbums == 1
MaxMergeTracks == 2
MergeChanCap == 1
\* failures of the engine, the file system and the window injected into one
\* behaviour of the duplicate merge
MaxMergeFaults == 1
\* track rows removed by delete_track and by the cleanup of a rescan, and
\* invocations of cleanup_orphaned_covers
MaxRemovals == 1
\* chunks of BATCH_SIZE cover files in each cover directory, and batches'
\* worth of rows of the migration, of the runs whose ETA is followed
MaxEtaChunks == 4
\* rows of the migration whose batches are followed by their sizes alone
MaxFillItems == 24
\* length of the byte strings given to ImageFormat::from_bytes
MaxSniffLen == 12
\* dots inside the stem of the file names given to the directory walk
MaxStemDots == 1
\* audio files of the library a rescan walks
MaxScanFiles == 3
\* albums of a merge that runs beside a rescan
MaxShareAlbums == 2
\* full chunks of cover files in one directory of a path sync
MaxSyncChunks == 2

(***************************************************************************)
(* f32 arithmetic of `(base_size as f32 * k) as usize`                     *)
(***************************************************************************)
RECURSIVE Pow2(_)
Pow2(n) == IF n = 0 THEN 1 ELSE 2 * Pow2(n - 1)

RECURSIVE BitLen(_)
\* number of significant bits of n >= 0
BitLen(n) == IF n = 0 THEN 0 ELSE 1 + BitLen(n \div 2)

\* n rounded to the 24 significant bits of an f32 mantissa, ties to even
RoundToF32(n) ==
    LET extra == BitLen(n) - 24 IN
    IF extra <= 0 THEN n
    ELSE LET unit == Pow2(extra)
             q == n \div unit
             r == n % unit
             up == (2 * r > unit) \/ (2 * r = unit /\ q % 2 = 1)
         IN (IF up THEN q + 1 ELSE q) * unit

\* (x as f32 * (m / 2^s)) as usize : x converts exactly (x < 2^24), the
\* product is rounded to f32, the cast truncates toward zero
F32MulAsUsize(x, m, s) == RoundToF32(x * m) \div Pow2(s)

\* 0.8f32 is 0x3F4CCCCD = 13421773 / 2^24; 1.5f32 is exactly 3 / 2^1
ScaleDown(base) == F32MulAsUsize(base, 13421773, 24)
ScaleUp(base) == F32MulAsUsize(base, 3, 1)

(***************************************************************************)
(* calculate_batch_size                                                    *)
(***************************************************************************)
Min(a, b) == IF a < b THEN a ELSE b

clamp(x, lo, hi) == IF x < lo THEN lo ELSE IF x > hi THEN hi ELSE x

\* the middle segment started ten lower: a drop at the 500 boundary
base_size_dropping(items_processed) ==
    IF items_processed < 500
    THEN 25 + (items_processed \div 20)
    ELSE IF items_processed < 2000
         THEN 40 + ((items_processed - 500) \div 30)
         ELSE 100 + Min((items_processed - 2000) \div 200, 50)

base_size(items_processed) ==
    IF items_processed < 500
    THEN 25 + (items_processed \div 20)
    ELSE IF items_processed < 2000
         THEN 50 + ((items_processed - 500) \div 30)
         ELSE 100 + Min((items_processed - 2000) \div 200, 50)

\* the scale-up threshold taken inclusively
adjusted_inclusive(base, queue_depth) ==
    IF queue_depth >= base * 3
    THEN ScaleUp(base)
    ELSE IF queue_depth < base \div 2
         THEN ScaleDown(base)
         ELSE base

adjusted(base, queue_depth) ==
    IF queue_depth > base * 3
    THEN ScaleUp(base)
    ELSE IF queue_depth < base \div 2
         THEN ScaleDown(base)
         ELSE base

\* the final clamp left out
calculate_batch_size_unclamped(items_processed, total_items_, queue_depth) ==
    IF items_processed = 0
    THEN 20
    ELSE adjusted(base_size(items_processed), queue_depth)

calculate_batch_size(items_processed, total_items_, queue_depth) ==
    IF items_processed = 0
    THEN 20
    ELSE clamp(adjusted(base_size(items_processed), queue_depth), 20, 200)


(***************************************************************************)
(* migrate_covers_to_files: store, work items, channel                     *)
(***************************************************************************)
\* a row is named by its table and id: MigrationResult.item_type and .id
Items == {<<IF k % 2 = 1 THEN "track" ELSE "album", (k + 1) \div 2>> : k \in 1..MaxItems}

Workers == 1..PoolSize

NullPath == <<>>
\* "{id}.{ext}" in the tracks / albums covers directory
NewPath(it) == <<it[1], it[2], "img">>
\* a path some earlier run or scan stored in the row
OldPath(it) == <<it[1], it[2], "old">>

\* the columns of a row the migration reads or writes:
\* track_cover / art_data (blob) and track_cover_path / art_path (path)
RowStates(it) ==
    { [blob |-> "null", path |-> NullPath],
      [blob |-> "good", path |-> NullPath],
      [blob |-> "bad",  path |-> NullPath],
      [blob |-> "good", path |-> OldPath(it)] }

\* the enumeration without its `track_cover_path IS NULL` condition
Eligible_any_blob(store) == {it \in Items : store[it].blob # "null"}

\* WHERE track_cover IS NOT NULL AND track_cover_path IS NULL
Eligible(store) == {it \in Items : store[it].blob # "null" /\ store[it].path = NullPath}

\* UPDATE tracks SET track_cover_path = ?1 WHERE id = ?2
update_cover_path(store, it, path) == [store EXCEPT ![it].path = path]

RECURSIVE ApplyWrites(_, _)
\* the path updates of one transaction, in order
ApplyWrites(store, writes) ==
    IF writes = <<>> THEN store
    ELSE ApplyWrites(update_cover_path(store, Head(writes)[1], Head(writes)[2]), Tail(writes))

NoItem == <<"none", 0>>

VARIABLES
    m_pc,             \* the command: "idle" | "running" | "returned" | "failed"
    run,              \* invocations started so far
    results,          \* what each invocation returned
    poisoned,         \* db.conn mutex poisoned by a panic while it was held
    db,               \* committed rows of the store
    db0,              \* the rows as the current invocation's enumeration found them
    files,            \* cover files on disk
    tx_state,         \* "none" | "open" | "begin_failed" | "commit_failed"
    txw,              \* path updates of the open transaction
    conn_owner,       \* holder of the db.conn mutex guard:
                      \*   "none" | "assembler" | "other"
    todo,             \* work_items not yet taken by a pool thread
    total_items,
    chan,             \* the bounded channel (tx, rx)
    extracted_count,
    w_pc,             \* per pool thread: "idle" | "send" | "inc"
    w_item,           \* the MigrationResult a pool thread holds
    a_pc,             \* assembler: "idle" | "lock" | "size" | "collect" | "timeout" |
                      \*   "begin" | "update" | "commit" | "exit" | "panicked"
    batch_size,
    pending,
    idx,              \* position of `for result in &pending`
    batch_items,
    items_sent,
    batches_sent,
    tracks_migrated,
    albums_migrated,
    errors,
    events            \* the emissions of the current run, each delivered to the window or failed

storeVars == <<db, db0, files, tx_state, txw, conn_owner>>
workerVars == <<todo, chan, extracted_count, w_pc, w_item>>
asmVars == <<a_pc, batch_size, pending, idx, batch_items, items_sent, batches_sent,
             tracks_migrated, albums_migrated, errors, events>>
cmdVars == <<m_pc, run, results, poisoned, total_items>>
migVars == <<cmdVars, storeVars, workerVars, asmVars>>

VARIABLES
    cb_pc,               \* "input" | "done"
    cb_items_processed,  \* argument items_processed
    cb_total_items,      \* argument total_items
    cb_queue_depth,      \* argument queue_depth
    cb_result            \* returned batch size (0 before the call)

cbVars == <<cb_pc, cb_items_processed, cb_total_items, cb_queue_depth, cb_result>>

VARIABLES
    ramp_pc,             \* "input" | "done"
    ramp_a,              \* items_processed of the earlier call
    ramp_b,              \* items_processed of the later call, ramp_a <= ramp_b
    ramp_size_a,         \* batch size returned for ramp_a (0 before the calls)
    ramp_size_b          \* batch size returned for ramp_b (0 before the calls)

rampVars == <<ramp_pc, ramp_a, ramp_b, ramp_size_a, ramp_size_b>>

VARIABLES
    eta_pc,              \* "idle" | "migrate" | "tracks" | "albums" | "returned"
    eta_tracks,          \* tracks.len() / track_updates.len()
    eta_albums,          \* albums.len() / album_updates.len()
    eta_item_us,         \* time one item takes, in microseconds
    eta_start_us,        \* time between Instant::now() and the first item
    eta_handled,         \* items handled since the Instant was taken
    eta_processed,       \* items_sent / *processed
    eta_snaps            \* the last two MigrationProgressUpdate values emitted

etaVars == <<eta_pc, eta_tracks, eta_albums, eta_item_us, eta_start_us, eta_handled,
             eta_processed, eta_snaps>>

VARIABLES
    fl_pc,               \* assembler: "idle" | "size" | "collect" | "begin" | "update" |
                         \*   "commit" | "exit"
    fl_total_items,      \* total_items
    fl_extracted_count,  \* extracted_count
    fl_rx_len,           \* rx.len()
    fl_batch_size,       \* batch_size of the turn of the loop
    fl_pending_len,      \* pending.len()
    fl_batch_items_len,  \* batch_items.len()
    fl_items_sent,       \* items_sent
    fl_batches_sent,     \* batches_sent
    fl_tx_open,          \* transactions of the connection not yet committed
    fl_begins,           \* calls of conn.transaction() so far
    fl_sizings,          \* calls of calculate_batch_size so far
    fl_progress          \* the MigrationProgressUpdate emitted last

fillVars == <<fl_pc, fl_total_items, fl_extracted_count, fl_rx_len, fl_batch_size,
              fl_pending_len, fl_batch_items_len, fl_items_sent, fl_batches_sent,
              fl_tx_open, fl_begins, fl_sizings, fl_progress>>

VARIABLES
    rs_pc,               \* rescan_music: "idle" | "cleanup" | "walk" | "failed"
    rs_folders,          \* whether music_folders holds any folder
    rs_tracks,           \* ids of the rows of the tracks table
    rs_tracks0,          \* rs_tracks when the command was invoked
    rs_present,          \* ids whose audio file exists on disk
    rs_rows,             \* rows the SELECT of cleanup_deleted_tracks has yet to yield
    rs_deleted           \* deleted_count

rescanVars == <<rs_pc, rs_folders, rs_tracks, rs_tracks0, rs_present, rs_rows, rs_deleted>>

VARIABLES
    mg_pc,               \* merge_duplicate_covers: "idle" | "running" | "returned" | "failed"
    mg_cover,            \* tracks.track_cover_path of the merge's tracks
    mg_files,            \* cover files on disk
    mg_bytes,            \* content of the cover file first written for each track
    mg_todo,             \* albums not yet taken by a pool thread
    total_albums,
    albums_processed,
    mg_w_pc,             \* per pool thread: "idle" | "lock" | "query" | "analyse" | "send"
    mg_w_album,          \* the album a pool thread works on
    mg_w_tracks,         \* `tracks`: the (id, track_cover_path) rows it read
    mg_w_group,          \* the AlbumCoverGroup it built
    mg_chan,             \* bounded(100) channel of AlbumCoverGroup
    mc_pc,               \* consumer: "idle" | "recv" | "group" | "lock" | "begin" |
                         \*   "update" | "commit" | "delete" | "done"
    mc_group,            \* album_group
    mc_buckets,          \* cover_groups entries the `for` has yet to visit
    mc_updates,          \* updates still to execute
    mc_txw,              \* row updates of the open transaction
    files_to_delete,
    covers_merged,
    space_saved_bytes,
    mg_errors,
    mg_events,
    mg_results,
    mg_faults,           \* failures injected so far
    mg_calls,            \* invocations of merge_duplicate_covers still to come
    lib_albums,          \* ids of the rows of the albums table
    lib_removed,         \* track rows removed so far
    lib_art,             \* album art files on disk, by the id in their name
    lib_stray,           \* cover directories holding a file whose name is no id
    oc_results           \* results of cleanup_orphaned_covers, in call order

mergeStoreVars == <<mg_cover, mg_files, mg_bytes>>
mergeWorkerVars == <<mg_todo, albums_processed, mg_w_pc, mg_w_album, mg_w_tracks, mg_w_group,
                     mg_chan>>
consumerVars == <<mc_pc, mc_group, mc_buckets, mc_updates, mc_txw, files_to_delete,
                  covers_merged, space_saved_bytes, mg_errors, mg_events>>
libVars == <<lib_albums, lib_removed, lib_art, lib_stray, oc_results>>
mergeVars == <<mg_pc, total_albums, mg_results, mg_faults, mg_calls, mergeStoreVars,
               mergeWorkerVars, consumerVars, libVars>>

VARIABLES
    call_pc,             \* a function called on its own: "idle" | "input" | "done"
    call_args,           \* its arguments
    call_result          \* what it returned and wrote

callVars == <<call_pc, call_args, call_result>>

VARIABLES
    pl_lock,             \* holder of the db.conn mutex guard:
                         \*   "none" | "assembler" | "analysis" | "consumer"
    pl_thread,           \* per pool thread: "idle" | "send" | "inc" (rescan) |
                         \*   "lock" | "query" | "group" (merge)
    pl_all_files,        \* files of all_files no pool thread has taken yet
    pl_total_files,      \* total_files
    pl_extracted_count,  \* extracted_count
    pl_rx_len,           \* rx.len() of the rescan
    pl_asm,              \* rescan closure: "idle" | "lock" | "size" | "collect" |
                         \*   "timeout" | "insert" | "stamp" | "returned" | "panicked"
    pl_batch_size,       \* batch_size
    pl_pending_len,      \* pending.len()
    pl_tracks_sent,      \* tracks_sent
    pl_stamped,          \* runs of the loop over folders_clone
    pl_albums,           \* albums of the merge no pool thread has taken yet
    pl_groups,           \* rx.len() of the merge
    pl_consumer          \* merge closure: "idle" | "recv" | "lock" | "tx" | "done"

poolVars == <<pl_lock, pl_thread, pl_all_files, pl_total_files, pl_extracted_count, pl_rx_len,
              pl_asm, pl_batch_size, pl_pending_len, pl_tracks_sent, pl_stamped, pl_albums,
              pl_groups, pl_consumer>>

pureVars == <<cbVars, rampVars, etaVars, fillVars, callVars, poolVars>>

\* everything outside migrate_covers_to_files
restVars == <<pureVars, rescanVars, mergeVars>>

vars == <<restVars, migVars>>

ProcessedInputs ==
    {p \in 0..MaxFineP : p < 40 \/ p % 10 \in {0, 9}}
      \cup {MaxFineP + 100 * k : k \in 0..MaxCoarseSteps}

CbIdle ==
    /\ cb_pc = "done"
    /\ cb_items_processed = 0
    /\ cb_total_items = 0
    /\ cb_queue_depth = 0
    /\ cb_result = 20

RampIdle ==
    /\ ramp_pc = "done"
    /\ ramp_a = 0
    /\ ramp_b = 0
    /\ ramp_size_a = 20
    /\ ramp_size_b = 20

EtaIdle ==
    /\ eta_pc = "idle"
    /\ eta_tracks = 0
    /\ eta_albums = 0
    /\ eta_item_us = 0
    /\ eta_start_us = 0
    /\ eta_handled = 0
    /\ eta_processed = 0
    /\ eta_snaps = <<>>

NoProgress == [current |-> 0, total |-> 0, current_batch |-> 0, batch_size |-> 0]

FillIdle ==
    /\ fl_pc = "idle"
    /\ fl_total_items = 0
    /\ fl_extracted_count = 0
    /\ fl_rx_len = 0
    /\ fl_batch_size = 0
    /\ fl_pending_len = 0
    /\ fl_batch_items_len = 0
    /\ fl_items_sent = 0
    /\ fl_batches_sent = 0
    /\ fl_tx_open = 0
    /\ fl_begins = 0
    /\ fl_sizings = 0
    /\ fl_progress = NoProgress

CallIdle ==
    /\ call_pc = "idle"
    /\ call_args = <<>>
    /\ call_result = <<>>

PoolIdle ==
    /\ pl_lock = "none"
    /\ pl_thread = [w \in Workers |-> "idle"]
    /\ pl_all_files = 0
    /\ pl_total_files = 0
    /\ pl_extracted_count = 0
    /\ pl_rx_len = 0
    /\ pl_asm = "idle"
    /\ pl_batch_size = 0
    /\ pl_pending_len = 0
    /\ pl_tracks_sent = 0
    /\ pl_stamped = 0
    /\ pl_albums = 0
    /\ pl_groups = 0
    /\ pl_consumer = "idle"

RescanTracks == 1..MaxRescanTracks

RescanIdle ==
    /\ rs_pc = "idle"
    /\ rs_folders = FALSE
    /\ rs_tracks = {}
    /\ rs_tracks0 = {}
    /\ rs_present = {}
    /\ rs_rows = <<>>
    /\ rs_deleted = 0

MergeAlbums == 1..MaxMergeAlbums

\* a track is named by its album and its position in the album
MergeTracks == MergeAlbums \X (1..MaxMergeTracks)

\* the cover file first written for a track is named after the track
NoCover == <<0, 0>>

\* the row of the track has been deleted
NoRow == <<0, 1>>

\* the album art of an album whose row is gone
GoneAlbum == 0

CoverDirs == {"tracks", "albums"}

NoGroup == [album_name |-> 0, cover_groups |-> {}, filepath_to_tracks |-> {}]

MergeFresh ==
    /\ mg_pc = "idle"
    /\ mg_todo = {}
    /\ total_albums = 0
    /\ albums_processed = 0
    /\ mg_w_pc = [w \in Workers |-> "idle"]
    /\ mg_w_album = [w \in Workers |-> 0]
    /\ mg_w_tracks = [w \in Workers |-> {}]
    /\ mg_w_group = [w \in Workers |-> NoGroup]
    /\ mg_chan = <<>>
    /\ mc_pc = "idle"
    /\ mc_group = NoGroup
    /\ mc_buckets = {}
    /\ mc_updates = {}
    /\ mc_txw = {}
    /\ files_to_delete = {}
    /\ covers_merged = 0
    /\ space_saved_bytes = 0
    /\ mg_errors = <<>>
    /\ mg_events = <<>>
    /\ mg_results = <<>>
    /\ lib_removed = 0
    /\ lib_art = MergeAlbums \cup {GoneAlbum}
    /\ lib_stray = CoverDirs
    /\ oc_results = <<>>

MergeIdle ==
    /\ MergeFresh
    /\ mg_calls = 0
    /\ mg_faults = 0
    /\ lib_albums = {}
    /\ mg_cover = [t \in MergeTracks |-> NoCover]
    /\ mg_files = {}
    /\ mg_bytes = [t \in MergeTracks |-> "x"]

(***************************************************************************)
(* The command before its first invocation                                 *)
(***************************************************************************)
\* the locals of the spawn_blocking closure as it declares them
AssemblerFresh ==
    /\ batch_size = 0
    /\ pending = <<>>
    /\ idx = 0
    /\ batch_items = <<>>
    /\ items_sent = 0
    /\ batches_sent = 0
    /\ tracks_migrated = 0
    /\ albums_migrated = 0
    /\ errors = <<>>

ProcessFresh ==
    /\ m_pc = "idle"
    /\ poisoned = FALSE
    /\ tx_state = "none"
    /\ txw = <<>>
    /\ conn_owner = "none"
    /\ todo = {}
    /\ total_items = 0
    /\ chan = <<>>
    /\ extracted_count = 0
    /\ w_pc = [w \in Workers |-> "idle"]
    /\ w_item = [w \in Workers |-> NoItem]
    /\ a_pc = "idle"
    /\ AssemblerFresh
    /\ events = <<>>

MigIdle ==
    /\ ProcessFresh
    /\ run = 0
    /\ results = <<>>
    /\ db = [it \in Items |-> [blob |-> "null", path |-> NullPath]]
    /\ db0 = db
    /\ files = {}

MigInit ==
    /\ ProcessFresh
    /\ run = 0
    /\ results = <<>>
    /\ db \in [Items -> [blob : {"null", "good", "bad"}, path : {NullPath} \cup {OldPath(it) : it \in Items}]]
    /\ \A it \in Items : db[it] \in RowStates(it)
    /\ db0 = db
    /\ files = {OldPath(it) : it \in {i \in Items : db[i].path # NullPath}}

(***************************************************************************)
(* migrate_covers_to_files: enumeration and spawn                          *)
(***************************************************************************)
ProducersDone == todo = {} /\ \A w \in Workers : w_pc[w] = "idle"

ErrResult(why) ==
    [kind |-> why, total |-> 0, processed |-> 0, tracks_migrated |-> 0,
     albums_migrated |-> 0, errors |-> <<>>]

OkResult(total, tracks, albums, errs) ==
    [kind |-> "ok", total |-> total, processed |-> tracks + albums,
     tracks_migrated |-> tracks, albums_migrated |-> albums, errors |-> errs]

\* db.conn.lock() or a prepare / query_map of the enumeration fails: `?`
\* returns Err before anything is spawned
EnumerateFail ==
    /\ m_pc \in {"idle", "returned", "failed"}
    /\ run < MaxRuns
    /\ ProducersDone
    /\ conn_owner = "none"
    /\ run' = run + 1
    /\ m_pc' = "failed"
    /\ results' = Append(results, ErrResult("enumerate"))
    /\ events' = <<>>
    /\ UNCHANGED <<poisoned, total_items, storeVars, workerVars>>
    /\ UNCHANGED <<a_pc, batch_size, pending, idx, batch_items, items_sent, batches_sent,
                   tracks_migrated, albums_migrated, errors>>

\* the enumeration reads the eligible rows; with none it returns the empty
\* summary, otherwise it creates the channel and counter, spawns the
\* producer thread and the assembler closure
Enumerate ==
    /\ m_pc \in {"idle", "returned", "failed"}
    /\ run < MaxRuns
    /\ ProducersDone
    /\ ~poisoned
    /\ conn_owner = "none"
    /\ run' = run + 1
    /\ events' = <<>>
    /\ LET work == Eligible(db) IN
       /\ total_items' = Cardinality(work)
       /\ IF work = {}
          THEN /\ m_pc' = "returned"
               /\ results' = Append(results, OkResult(0, 0, 0, <<>>))
               /\ UNCHANGED <<workerVars, a_pc>>
          ELSE /\ m_pc' = "running"
               /\ results' = results
               /\ todo' = {[item |-> it, data |-> db[it].blob] : it \in work}
               /\ chan' = <<>>
               /\ extracted_count' = 0
               /\ a_pc' = "lock"
               /\ UNCHANGED <<w_pc, w_item>>
    /\ batch_size' = 0
    /\ pending' = <<>>
    /\ idx' = 0
    /\ batch_items' = <<>>
    /\ items_sent' = 0
    /\ batches_sent' = 0
    /\ tracks_migrated' = 0
    /\ albums_migrated' = 0
    /\ errors' = <<>>
    /\ db0' = db
    /\ UNCHANGED <<poisoned, db, files, tx_state, txw, conn_owner>>

(***************************************************************************)
(* The producer thread: work_items.par_iter().for_each                     *)
(***************************************************************************)
\* rx lives in the assembler closure until the closure returns or unwinds
RxAlive == a_pc \in {"lock", "size", "collect", "timeout", "begin", "update", "commit", "exit"}

\* save_track_cover_from_base64 / save_album_art_from_base64: decode,
\* sniff, write; .ok() turns every failure into None and the item is dropped
\* the counter incremented once the item is transformed, before the send
WorkerTransform_counts_early(w) ==
    /\ w_pc[w] = "idle"
    /\ \A v \in Workers : v < w => w_pc[v] # "idle"
    /\ \E wi \in todo : \E write_ok \in BOOLEAN :
         /\ todo' = todo \ {wi}
         /\ IF wi.data = "good" /\ write_ok
            THEN /\ files' = files \cup {NewPath(wi.item)}
                 /\ w_pc' = [w_pc EXCEPT ![w] = "inc"]
                 /\ w_item' = [w_item EXCEPT ![w] = wi.item]
                 /\ extracted_count' = extracted_count + 1
            ELSE UNCHANGED <<files, w_pc, w_item, extracted_count>>
    /\ UNCHANGED <<cmdVars, db, db0, tx_state, txw, conn_owner, chan, asmVars>>

\* idle pool threads are interchangeable: the job goes to the first of them
WorkerTransform(w) ==
    /\ w_pc[w] = "idle"
    /\ \A v \in Workers : v < w => w_pc[v] # "idle"
    /\ \E wi \in todo : \E write_ok \in BOOLEAN :
         /\ todo' = todo \ {wi}
         /\ IF wi.data = "good" /\ write_ok
            THEN /\ files' = files \cup {NewPath(wi.item)}
                 /\ w_pc' = [w_pc EXCEPT ![w] = "send"]
                 /\ w_item' = [w_item EXCEPT ![w] = wi.item]
            ELSE UNCHANGED <<files, w_pc, w_item>>
    /\ UNCHANGED <<cmdVars, db, db0, tx_state, txw, conn_owner, chan, extracted_count, asmVars>>

\* the channel taken as unbounded: the send never waits for room
WorkerSend_unbounded(w) ==
    /\ w_pc[w] = "send"
    /\ IF RxAlive
       THEN chan' = Append(chan, w_item[w])
       ELSE chan' = chan
    /\ w_pc' = [w_pc EXCEPT ![w] = "inc"]
    /\ UNCHANGED <<cmdVars, storeVars, todo, extracted_count, w_item, asmVars>>

\* tx.send(res): blocks while the channel is full, fails at once when the
\* receiver is gone; `let _ =` ignores the failure
WorkerSend(w) ==
    /\ w_pc[w] = "send"
    /\ IF RxAlive
       THEN /\ Len(chan) < ChanCap
            /\ chan' = Append(chan, w_item[w])
       ELSE chan' = chan
    /\ w_pc' = [w_pc EXCEPT ![w] = "inc"]
    /\ UNCHANGED <<cmdVars, storeVars, todo, extracted_count, w_item, asmVars>>

\* extracted_count_for_spawn.fetch_add(1, Ordering::Relaxed)
WorkerInc(w) ==
    /\ w_pc[w] = "inc"
    /\ extracted_count' = extracted_count + 1
    /\ w_pc' = [w_pc EXCEPT ![w] = "idle"]
    /\ w_item' = [w_item EXCEPT ![w] = NoItem]
    /\ UNCHANGED <<cmdVars, storeVars, todo, chan, asmVars>>

(***************************************************************************)
(* The assembler closure                                                   *)
(***************************************************************************)
\* the guard `conn` lives in the closure: it is dropped when the closure
\* returns and when it unwinds
Release(pc) == IF pc \in {"exit", "panicked"} THEN "none" ELSE conn_owner

\* the closure never locking db.conn
AsmLock_unlocked ==
    /\ a_pc = "lock"
    /\ a_pc' = "size"
    /\ UNCHANGED <<cmdVars, storeVars, workerVars, batch_size, pending, idx, batch_items,
                   items_sent, batches_sent, tracks_migrated, albums_migrated, errors, events>>

\* let mut conn = db_conn.lock().unwrap(): waits for the mutex, then holds
\* the guard for the whole loop
AsmLock ==
    /\ a_pc = "lock"
    /\ conn_owner = "none"
    /\ conn_owner' = "assembler"
    /\ a_pc' = "size"
    /\ UNCHANGED <<cmdVars, db, db0, files, tx_state, txw, workerVars, batch_size, pending,
                   idx, batch_items, items_sent, batches_sent, tracks_migrated,
                   albums_migrated, errors, events>>

\* after the collect loop: `if pending.is_empty() { break; }`
AfterCollect(p) == IF p = <<>> THEN "exit" ELSE "begin"

\* let queue_depth = rx.len(); let batch_size = calculate_batch_size(..)
AsmSize ==
    /\ a_pc = "size"
    /\ batch_size' = calculate_batch_size(items_sent, total_items, Len(chan))
    /\ a_pc' = "collect"
    /\ UNCHANGED <<cmdVars, storeVars, workerVars, pending, idx, batch_items, items_sent,
                   batches_sent, tracks_migrated, albums_migrated, errors, events>>

\* while pending.len() < batch_size { match rx.recv_timeout(100ms) ... }
\* Ok(result) pushes; Err (timeout or disconnected) goes to the counter check
AsmCollect ==
    /\ a_pc = "collect"
    /\ IF Len(pending) >= batch_size
       THEN /\ a_pc' = AfterCollect(pending)
            /\ UNCHANGED <<pending, chan>>
       ELSE IF chan # <<>>
            THEN /\ pending' = Append(pending, Head(chan))
                 /\ chan' = Tail(chan)
                 /\ a_pc' = "collect"
            ELSE /\ a_pc' = "timeout"
                 /\ UNCHANGED <<pending, chan>>
    /\ conn_owner' = Release(a_pc')
    /\ UNCHANGED <<cmdVars, db, db0, files, tx_state, txw, todo, extracted_count, w_pc, w_item, batch_size, idx,
                   batch_items, items_sent, batches_sent, tracks_migrated, albums_migrated,
                   errors, events>>

\* Err(_) => if extracted_count.load(Relaxed) >= total_items { break; }
AsmTimeout ==
    /\ a_pc = "timeout"
    /\ a_pc' = IF extracted_count >= total_items THEN AfterCollect(pending) ELSE "collect"
    /\ conn_owner' = Release(a_pc')
    /\ UNCHANGED <<cmdVars, db, db0, files, tx_state, txw, workerVars, batch_size, pending, idx, batch_items,
                   items_sent, batches_sent, tracks_migrated, albums_migrated, errors, events>>

\* let tx_db = conn.transaction().unwrap(); let mut batch_items = Vec::new();
AsmBeginOk ==
    /\ a_pc = "begin"
    /\ tx_state' = "open"
    /\ txw' = <<>>
    /\ batch_items' = <<>>
    /\ idx' = 1
    /\ a_pc' = "update"
    /\ conn_owner' = Release(a_pc')
    /\ UNCHANGED <<cmdVars, db, db0, files, workerVars, batch_size, pending, items_sent,
                   batches_sent, tracks_migrated, albums_migrated, errors, events>>

\* conn.transaction() returns Err: unwrap() panics
AsmBeginFail ==
    /\ a_pc = "begin"
    /\ tx_state' = "begin_failed"
    /\ a_pc' = "panicked"
    /\ poisoned' = TRUE
    /\ conn_owner' = Release(a_pc')
    /\ UNCHANGED <<m_pc, run, results, total_items, db, db0, files, txw, workerVars, batch_size, pending, idx,
                   batch_items, items_sent, batches_sent, tracks_migrated, albums_migrated,
                   errors, events>>

\* the row update propagated with unwrap(): a failing row unwinds the closure
AsmUpdate_unwrap ==
    /\ a_pc = "update"
    /\ LET result == pending[idx] IN
       \E row_ok \in BOOLEAN :
         IF row_ok
         THEN /\ txw' = Append(txw, <<result, NewPath(result)>>)
              /\ tracks_migrated' = IF result[1] = "track" THEN tracks_migrated + 1 ELSE tracks_migrated
              /\ albums_migrated' = IF result[1] = "track" THEN albums_migrated ELSE albums_migrated + 1
              /\ batch_items' = Append(batch_items, result)
              /\ errors' = errors
              /\ tx_state' = tx_state
              /\ a_pc' = IF idx = Len(pending) THEN "commit" ELSE "update"
         ELSE /\ errors' = Append(errors, result)
              /\ txw' = <<>>
              /\ tx_state' = "none"
              /\ a_pc' = "panicked"
              /\ UNCHANGED <<tracks_migrated, albums_migrated, batch_items>>
    /\ idx' = idx + 1
    /\ conn_owner' = Release(a_pc')
    /\ UNCHANGED <<cmdVars, db, db0, files, workerVars, batch_size, pending,
                   items_sent, batches_sent, events>>

\* the row update run on the connection outside the transaction
AsmUpdate_autocommit ==
    /\ a_pc = "update"
    /\ LET result == pending[idx] IN
       \E row_ok \in BOOLEAN :
         IF row_ok
         THEN /\ db' = update_cover_path(db, result, NewPath(result))
              /\ tracks_migrated' = IF result[1] = "track" THEN tracks_migrated + 1 ELSE tracks_migrated
              /\ albums_migrated' = IF result[1] = "track" THEN albums_migrated ELSE albums_migrated + 1
              /\ batch_items' = Append(batch_items, result)
              /\ errors' = errors
         ELSE /\ errors' = Append(errors, result)
              /\ UNCHANGED <<db, tracks_migrated, albums_migrated, batch_items>>
    /\ idx' = idx + 1
    /\ a_pc' = IF idx = Len(pending) THEN "commit" ELSE "update"
    /\ conn_owner' = Release(a_pc')
    /\ UNCHANGED <<cmdVars, db0, files, tx_state, txw, workerVars, batch_size, pending,
                   items_sent, batches_sent, events>>

\* the per-kind counter advanced before the row update is known to succeed
AsmUpdate_counts_failed ==
    /\ a_pc = "update"
    /\ LET result == pending[idx] IN
       \E row_ok \in BOOLEAN :
         /\ tracks_migrated' = IF result[1] = "track" THEN tracks_migrated + 1 ELSE tracks_migrated
         /\ albums_migrated' = IF result[1] = "track" THEN albums_migrated ELSE albums_migrated + 1
         /\ IF row_ok
            THEN /\ txw' = Append(txw, <<result, NewPath(result)>>)
                 /\ batch_items' = Append(batch_items, result)
                 /\ errors' = errors
            ELSE /\ errors' = Append(errors, result)
                 /\ UNCHANGED <<txw, batch_items>>
    /\ idx' = idx + 1
    /\ a_pc' = IF idx = Len(pending) THEN "commit" ELSE "update"
    /\ conn_owner' = Release(a_pc')
    /\ UNCHANGED <<cmdVars, db, db0, files, tx_state, workerVars, batch_size, pending,
                   items_sent, batches_sent, events>>

\* one iteration of `for result in &pending`: update_track_cover_path or
\* update_album_art_path inside the transaction; Ok counts and pushes to
\* batch_items, Err pushes to errors and the loop goes on
AsmUpdate ==
    /\ a_pc = "update"
    /\ LET result == pending[idx] IN
       \E row_ok \in BOOLEAN :
         IF row_ok
         THEN /\ txw' = Append(txw, <<result, NewPath(result)>>)
              /\ tracks_migrated' = IF result[1] = "track" THEN tracks_migrated + 1 ELSE tracks_migrated
              /\ albums_migrated' = IF result[1] = "track" THEN albums_migrated ELSE albums_migrated + 1
              /\ batch_items' = Append(batch_items, result)
              /\ errors' = errors
         ELSE /\ errors' = Append(errors, result)
              /\ UNCHANGED <<txw, tracks_migrated, albums_migrated, batch_items>>
    /\ idx' = idx + 1
    /\ a_pc' = IF idx = Len(pending) THEN "commit" ELSE "update"
    /\ conn_owner' = Release(a_pc')
    /\ UNCHANGED <<cmdVars, db, db0, files, tx_state, workerVars, batch_size, pending,
                   items_sent, batches_sent, events>>

Snapshot(sent, batches) ==
    [type |-> "batch", items |-> batch_items, current |-> sent, total |-> total_items,
     current_batch |-> batches, batch_size |-> Len(pending),
     tracks_migrated |-> tracks_migrated, albums_migrated |-> albums_migrated,
     errors |-> <<>>, delivered |-> TRUE]

\* let _ = window.emit(..): the event reaches the window or the emission
\* fails, and the Result is discarded either way
Emit(log, ev, emit_ok) == Append(log, [ev EXCEPT !.delivered = emit_ok])

\* the emission unwrapped instead of discarded: a failed emit panics
AsmCommitOk_emit_unwrap ==
    /\ a_pc = "commit"
    /\ db' = ApplyWrites(db, txw)
    /\ tx_state' = "none"
    /\ txw' = <<>>
    /\ items_sent' = items_sent + Len(batch_items)
    /\ batches_sent' = batches_sent + 1
    /\ \E emit_ok \in BOOLEAN :
         /\ events' = Emit(events, Snapshot(items_sent + Len(batch_items), batches_sent + 1), emit_ok)
         /\ IF emit_ok
            THEN /\ pending' = <<>>
                 /\ a_pc' = IF items_sent + Len(batch_items) >= total_items THEN "exit" ELSE "size"
            ELSE /\ pending' = pending
                 /\ a_pc' = "panicked"
    /\ conn_owner' = Release(a_pc')
    /\ UNCHANGED <<cmdVars, db0, files, workerVars, batch_size, idx, batch_items,
                   tracks_migrated, albums_migrated, errors>>

\* the counter assigned the size of the batch instead of advanced by it
AsmCommitOk_count_assigned ==
    /\ a_pc = "commit"
    /\ db' = ApplyWrites(db, txw)
    /\ tx_state' = "none"
    /\ txw' = <<>>
    /\ items_sent' = Len(batch_items)
    /\ batches_sent' = batches_sent + 1
    /\ \E emit_ok \in BOOLEAN :
         events' = Emit(events, Snapshot(Len(batch_items), batches_sent + 1), emit_ok)
    /\ pending' = <<>>
    /\ a_pc' = IF Len(batch_items) >= total_items THEN "exit" ELSE "size"
    /\ conn_owner' = Release(a_pc')
    /\ UNCHANGED <<cmdVars, db0, files, workerVars, batch_size, idx, batch_items,
                   tracks_migrated, albums_migrated, errors>>

\* tx_db.commit().unwrap(); items_sent += batch_items.len(); batches_sent += 1;
\* emit "migration-batch-ready"; pending.clear();
\* if items_sent >= total_items { break; }
AsmCommitOk ==
    /\ a_pc = "commit"
    /\ db' = ApplyWrites(db, txw)
    /\ tx_state' = "none"
    /\ txw' = <<>>
    /\ items_sent' = items_sent + Len(batch_items)
    /\ batches_sent' = batches_sent + 1
    /\ \E emit_ok \in BOOLEAN :
         events' = Emit(events, Snapshot(items_sent + Len(batch_items), batches_sent + 1), emit_ok)
    /\ pending' = <<>>
    /\ a_pc' = IF items_sent + Len(batch_items) >= total_items THEN "exit" ELSE "size"
    /\ conn_owner' = Release(a_pc')
    /\ UNCHANGED <<cmdVars, db0, files, workerVars, batch_size, idx, batch_items,
                   tracks_migrated, albums_migrated, errors>>

\* tx_db.commit() returns Err: unwrap() panics, the transaction is rolled back
AsmCommitFail ==
    /\ a_pc = "commit"
    /\ tx_state' = "commit_failed"
    /\ txw' = <<>>
    /\ a_pc' = "panicked"
    /\ poisoned' = TRUE
    /\ conn_owner' = Release(a_pc')
    /\ UNCHANGED <<m_pc, run, results, total_items, db, db0, files, workerVars, batch_size, pending, idx, batch_items,
                   items_sent, batches_sent, tracks_migrated, albums_migrated, errors, events>>

(***************************************************************************)
(* The command after the closure                                           *)
(***************************************************************************)
Complete(r) ==
    [type |-> "complete", items |-> <<>>, current |-> r.processed, total |-> r.total,
     current_batch |-> 0, batch_size |-> 0, tracks_migrated |-> r.tracks_migrated,
     albums_migrated |-> r.albums_migrated, errors |-> r.errors, delivered |-> TRUE]

\* the closure returned (tracks_migrated, albums_migrated, errors): emit
\* "migration-complete" and return Ok(MigrationProgress)
MainReturn ==
    /\ m_pc = "running"
    /\ a_pc = "exit"
    /\ LET r == OkResult(total_items, tracks_migrated, albums_migrated, errors) IN
       /\ results' = Append(results, r)
       /\ \E emit_ok \in BOOLEAN : events' = Emit(events, Complete(r), emit_ok)
    /\ m_pc' = "returned"
    /\ a_pc' = "idle"
    /\ chan' = <<>>
    /\ UNCHANGED <<run, poisoned, total_items, storeVars, todo, extracted_count, w_pc, w_item,
                   batch_size, pending, idx, batch_items, items_sent, batches_sent,
                   tracks_migrated, albums_migrated, errors>>

\* the closure panicked in unwrap(): the guard of db.conn is dropped while
\* panicking (the mutex is poisoned), the join error becomes Err(String)
MainJoinError ==
    /\ m_pc = "running"
    /\ a_pc = "panicked"
    /\ results' = Append(results, ErrResult("join"))
    /\ m_pc' = "failed"
    /\ poisoned' = TRUE
    /\ a_pc' = "idle"
    /\ chan' = <<>>
    /\ UNCHANGED <<run, total_items, storeVars, todo, extracted_count, w_pc, w_item,
                   batch_size, pending, idx, batch_items, items_sent, batches_sent,
                   tracks_migrated, albums_migrated, errors, events>>

\* the process dies: threads, channel, locals and the open transaction are
\* gone, the committed rows and the files stay
Crash ==
    /\ m_pc = "running"
    /\ m_pc' = "idle"
    /\ poisoned' = FALSE
    /\ tx_state' = "none"
    /\ txw' = <<>>
    /\ conn_owner' = "none"
    /\ todo' = {}
    /\ total_items' = 0
    /\ chan' = <<>>
    /\ extracted_count' = 0
    /\ w_pc' = [w \in Workers |-> "idle"]
    /\ w_item' = [w \in Workers |-> NoItem]
    /\ a_pc' = "idle"
    /\ batch_size' = 0
    /\ pending' = <<>>
    /\ idx' = 0
    /\ batch_items' = <<>>
    /\ items_sent' = 0
    /\ batches_sent' = 0
    /\ tracks_migrated' = 0
    /\ albums_migrated' = 0
    /\ errors' = <<>>
    /\ events' = <<>>
    /\ results' = Append(results, ErrResult("crash"))
    /\ UNCHANGED <<run, db, db0, files>>

\* any other command of the application: `let conn = db.conn.lock()..?`,
\* its queries, and the guard dropped when the command returns
OtherLock ==
    /\ conn_owner = "none"
    /\ ~poisoned
    /\ conn_owner' = "other"
    /\ UNCHANGED <<cmdVars, db, db0, files, tx_state, txw, workerVars, asmVars>>

OtherUnlock ==
    /\ conn_owner = "other"
    /\ conn_owner' = "none"
    /\ UNCHANGED <<cmdVars, db, db0, files, tx_state, txw, workerVars, asmVars>>

OtherCommand == OtherLock \/ OtherUnlock

Worker(w) == WorkerTransform(w) \/ WorkerSend(w) \/ WorkerInc(w)

Assembler == AsmLock \/ AsmSize \/ AsmCollect \/ AsmTimeout \/ AsmBeginOk \/ AsmUpdate \/ AsmCommitOk

EngineFailure == AsmBeginFail \/ AsmCommitFail

Main == EnumerateFail \/ Enumerate \/ MainReturn \/ MainJoinError

Init == MigInit /\ CbIdle /\ RampIdle /\ EtaIdle /\ FillIdle /\ CallIdle /\ PoolIdle /\ RescanIdle
          /\ MergeIdle

Next ==
    \/ (Main /\ UNCHANGED restVars)
    \/ ((\E w \in Workers : Worker(w)) /\ UNCHANGED restVars)
    \/ (Assembler /\ UNCHANGED restVars)
    \/ (EngineFailure /\ UNCHANGED restVars)
    \/ (OtherCommand /\ UNCHANGED restVars)
    \/ (Crash /\ UNCHANGED restVars)

Spec == Init /\ [][Next]_vars

(***************************************************************************)
(* clear_base64_covers beside the runs of the migration                    *)
(***************************************************************************)
\* the rows an outcome of the two UPDATEs reaches: the tracks statement
\* runs first, and `?` returns at the first that fails
ClearReached(outcome) ==
    CASE outcome = "ok" -> Items
      [] outcome = "albums_failed" -> {it \in Items : it[1] = "track"}
      [] OTHER -> {}

\* the UPDATEs without their WHERE clause
ClearBase64Covers_every_row ==
    /\ conn_owner = "none"
    /\ ~poisoned
    /\ \E outcome \in {"ok", "tracks_failed", "albums_failed"} :
         db' = [it \in Items |->
                  IF it \in ClearReached(outcome)
                  THEN [db[it] EXCEPT !.blob = "null"] ELSE db[it]]
    /\ UNCHANGED <<cmdVars, db0, files, tx_state, txw, conn_owner, workerVars, asmVars>>

\* let conn = db.conn.lock()?; UPDATE tracks SET track_cover = NULL WHERE
\* track_cover_path IS NOT NULL; UPDATE albums SET art_data = NULL WHERE
\* art_path IS NOT NULL: two statements in autocommit mode under one guard
ClearBase64Covers ==
    /\ conn_owner = "none"
    /\ ~poisoned
    /\ \E outcome \in {"ok", "tracks_failed", "albums_failed"} :
         db' = [it \in Items |->
                  IF it \in ClearReached(outcome) /\ db[it].path # NullPath
                  THEN [db[it] EXCEPT !.blob = "null"] ELSE db[it]]
    /\ UNCHANGED <<cmdVars, db0, files, tx_state, txw, conn_owner, workerVars, asmVars>>

ClearNext ==
    \/ (Main /\ UNCHANGED restVars)
    \/ ((\E w \in Workers : Worker(w)) /\ UNCHANGED restVars)
    \/ (Assembler /\ UNCHANGED restVars)
    \/ (EngineFailure /\ UNCHANGED restVars)
    \/ (ClearBase64Covers /\ UNCHANGED restVars)

ClearSpec == Init /\ [][ClearNext]_vars

(***************************************************************************)
(* The run with a healthy engine and no crash, under fair scheduling: the  *)
(* command, every pool thread and the assembler closure each keep running  *)
(***************************************************************************)
LiveMain == Enumerate \/ MainReturn

LiveNext ==
    \/ (LiveMain /\ UNCHANGED restVars)
    \/ ((\E w \in Workers : Worker(w)) /\ UNCHANGED restVars)
    \/ (Assembler /\ UNCHANGED restVars)

LiveSpec ==
    /\ Init
    /\ [][LiveNext]_vars
    /\ WF_vars(LiveMain /\ UNCHANGED restVars)
    /\ WF_vars(Assembler /\ UNCHANGED restVars)
    /\ \A w \in Workers : WF_vars(Worker(w) /\ UNCHANGED restVars)

(***************************************************************************)
(* calculate_batch_size over bounded inputs                                *)
(***************************************************************************)
BatchInit ==
    /\ MigIdle
    /\ RampIdle
    /\ EtaIdle
    /\ FillIdle
    /\ CallIdle
    /\ PoolIdle
    /\ RescanIdle
    /\ MergeIdle
    /\ cb_pc = "input"
    /\ cb_items_processed \in ProcessedInputs
    /\ cb_total_items \in {1, cb_items_processed}
    /\ cb_queue_depth \in 0..MaxDepth
    /\ cb_result = 0

CallCalculateBatchSize ==
    /\ cb_pc = "input"
    /\ cb_result' = calculate_batch_size(cb_items_processed, cb_total_items, cb_queue_depth)
    /\ cb_pc' = "done"
    /\ UNCHANGED <<cb_items_processed, cb_total_items, cb_queue_depth, rampVars, etaVars,
                   fillVars, callVars, poolVars, rescanVars, mergeVars, migVars>>

BatchNext == CallCalculateBatchSize

BatchSpec == BatchInit /\ [][BatchNext]_vars

(***************************************************************************)
(* The base ramp: two calls of calculate_batch_size at items_processed     *)
(* a <= b, each with the queue depth inside its neutral band (no scaling)  *)
(***************************************************************************)
\* base / 2 <= base <= base * 3: neither the scale-up nor the scale-down branch
NeutralDepth(items_processed) == base_size(items_processed)

RampInit ==
    /\ MigIdle
    /\ CbIdle
    /\ EtaIdle
    /\ FillIdle
    /\ CallIdle
    /\ PoolIdle
    /\ RescanIdle
    /\ MergeIdle
    /\ ramp_pc = "input"
    /\ ramp_a \in ProcessedInputs
    /\ ramp_b \in {b \in ProcessedInputs : ramp_a <= b}
    /\ ramp_size_a = 0
    /\ ramp_size_b = 0

CallRamp ==
    /\ ramp_pc = "input"
    /\ ramp_size_a' = calculate_batch_size(ramp_a, ramp_b, NeutralDepth(ramp_a))
    /\ ramp_size_b' = calculate_batch_size(ramp_b, ramp_b, NeutralDepth(ramp_b))
    /\ ramp_pc' = "done"
    /\ UNCHANGED <<ramp_a, ramp_b, cbVars, etaVars, fillVars, callVars, poolVars, rescanVars, mergeVars,
                   migVars>>

RampNext == CallRamp

RampSpec == RampInit /\ [][RampNext]_vars

(***************************************************************************)
(* The ETA of the progress snapshots: migrate_covers_to_files and          *)
(* sync_cover_paths_from_files (batch_update_paths_with_progress), each    *)
(* item taking the same time                                               *)
(***************************************************************************)
\* const BATCH_SIZE: usize = 100
BATCH_SIZE == 100

\* numbers of rows and of cover files
EtaCounts == {(BATCH_SIZE \div 2) * k : k \in 0..(2 * MaxEtaChunks)}

\* microseconds one item takes: well under a millisecond, one, three
ItemTimes == {5, 1000, 3000}

\* microseconds the row queries take before the first item
StartTimes == {0, 2000}

\* queue depths rx.len() at the sizing of a batch
EtaDepths == {0, 500}

\* Instant::elapsed().as_millis() as u64
elapsed_ms(start_us, handled, item_us) == (start_us + handled * item_us) \div 1000

\* migrate_covers_to_files: integer division, saturating_sub
eta_ms(total_items_, items_sent_, elapsed) ==
    LET avg_ms_per_item == IF items_sent_ > 0 THEN elapsed \div items_sent_ ELSE 0
        remaining == IF total_items_ > items_sent_ THEN total_items_ - items_sent_ ELSE 0
    IN remaining * avg_ms_per_item

RECURSIVE Gcd(_, _)
Gcd(a, b) == IF b = 0 THEN a ELSE Gcd(b, a % b)

\* whether n > 0 is a power of two
RECURSIVE IsPow2(_)
IsPow2(n) == n = 1 \/ (n % 2 = 0 /\ IsPow2(n \div 2))

\* whether processed / elapsed is an f64: the counts are far below 2^53, so
\* it is one exactly when the denominator of the reduced fraction is a power
\* of two
RateIsExact(processed, elapsed) == IsPow2(elapsed \div Gcd(processed, elapsed))

\* batch_update_paths_with_progress: items_per_ms = processed / elapsed_ms
\* in f64, then (remaining / items_per_ms) as u64. The cast truncates. The
\* second division is of a rounded rate, so a quotient that is a whole
\* number in exact arithmetic can come out just below it and truncate to
\* one less; every other quotient is far from a whole number
estimated_remaining_ms(total_items_, processed, elapsed) ==
    LET remaining == IF total_items_ > processed THEN total_items_ - processed ELSE 0
        exact == (remaining * elapsed) \div processed
    IN IF elapsed > 0 /\ processed > 0
       THEN IF /\ (remaining * elapsed) % processed = 0
               /\ exact > 0
               /\ ~RateIsExact(processed, elapsed)
            THEN {exact - 1, exact}
            ELSE {exact}
       ELSE {0}

EtaTotal == eta_tracks + eta_albums

\* the snapshot emitted and the one before it
Emitted(snaps, update) == IF snaps = <<>> THEN <<update>> ELSE <<snaps[Len(snaps)], update>>

MigrationProgressUpdate(current, batch_len, eta) ==
    [current |-> current, total |-> EtaTotal, batch_size |-> batch_len,
     estimated_time_remaining_ms |-> eta]

EtaInit ==
    /\ MigIdle
    /\ CbIdle
    /\ RampIdle
    /\ RescanIdle
    /\ MergeIdle
    /\ FillIdle
    /\ CallIdle
    /\ PoolIdle
    /\ eta_pc \in {"migrate", "tracks"}
    /\ eta_tracks \in EtaCounts
    \* the migration treats the rows of both tables alike
    /\ eta_albums \in IF eta_pc = "migrate" THEN {0} ELSE EtaCounts
    /\ EtaTotal > 0
    /\ eta_item_us \in ItemTimes
    /\ eta_start_us \in IF eta_pc = "migrate" THEN StartTimes ELSE {0}
    /\ eta_handled = 0
    /\ eta_processed = 0
    /\ eta_snaps = <<>>

\* migrate_covers_to_files, one turn of the assembler's loop: the batch is
\* sized and collected, its rows are updated (update_ok: whether the engine
\* accepts the UPDATEs of this batch; only the first is ever refused), the
\* snapshot is emitted
MigrateBatch ==
    /\ eta_pc = "migrate"
    /\ \E queue_depth \in EtaDepths, update_ok \in BOOLEAN :
         LET size == calculate_batch_size(eta_processed, EtaTotal, queue_depth)
             pending_len == Min(size, EtaTotal - eta_handled)
             items_sent_ == IF update_ok THEN eta_processed + pending_len ELSE eta_processed
             handled == eta_handled + pending_len
             elapsed == elapsed_ms(eta_start_us, handled, eta_item_us)
         IN /\ eta_handled' = handled
            /\ eta_processed' = items_sent_
            /\ update_ok \/ eta_handled = 0
            /\ eta_snaps' = Emitted(eta_snaps,
                   MigrationProgressUpdate(items_sent_, pending_len,
                                           eta_ms(EtaTotal, items_sent_, elapsed)))
            /\ eta_pc' = IF handled >= EtaTotal THEN "returned" ELSE "migrate"
    /\ UNCHANGED <<eta_tracks, eta_albums, eta_item_us, eta_start_us>>

EtaUpdates(table) == IF table = "tracks" THEN eta_tracks ELSE eta_albums

EtaNextCall(table) == IF table = "tracks" THEN "albums" ELSE "returned"

\* batch_update_paths_with_progress with no cover file of the table:
\* return Ok(0), nothing emitted
BatchUpdatePathsEmpty(table) ==
    /\ eta_pc = table
    /\ EtaUpdates(table) = 0
    /\ eta_pc' = EtaNextCall(table)
    /\ UNCHANGED <<eta_tracks, eta_albums, eta_item_us, eta_start_us, eta_handled,
                   eta_processed, eta_snaps>>

\* batch_update_paths_with_progress, one chunk of updates.chunks(BATCH_SIZE)
\* whose files all have their row: start_time is taken anew in each call,
\* *processed is the caller's and runs on from the tracks to the albums
BatchUpdatePathsChunk(table) ==
    /\ eta_pc = table
    /\ EtaUpdates(table) > 0
    /\ LET chunk_len == Min(BATCH_SIZE, EtaUpdates(table) - eta_handled)
           handled == eta_handled + chunk_len
           processed == eta_processed + chunk_len
           elapsed == elapsed_ms(0, handled, eta_item_us)
       IN /\ eta_processed' = processed
          /\ \E eta \in estimated_remaining_ms(EtaTotal, processed, elapsed) :
                eta_snaps' = Emitted(eta_snaps,
                                     MigrationProgressUpdate(processed, chunk_len, eta))
          /\ IF handled >= EtaUpdates(table)
             THEN eta_pc' = EtaNextCall(table) /\ eta_handled' = 0
             ELSE eta_pc' = table /\ eta_handled' = handled
    /\ UNCHANGED <<eta_tracks, eta_albums, eta_item_us, eta_start_us>>

EtaNext ==
    \/ (MigrateBatch /\ UNCHANGED <<cbVars, rampVars, fillVars, callVars, poolVars, rescanVars, mergeVars,
                         migVars>>)
    \/ (\E table \in {"tracks", "albums"} :
          BatchUpdatePathsEmpty(table)
            /\ UNCHANGED <<cbVars, rampVars, fillVars, callVars, poolVars, rescanVars, mergeVars,
                         migVars>>)
    \/ (\E table \in {"tracks", "albums"} :
          BatchUpdatePathsChunk(table)
            /\ UNCHANGED <<cbVars, rampVars, fillVars, callVars, poolVars, rescanVars, mergeVars,
                         migVars>>)

EtaSpec == EtaInit /\ [][EtaNext]_vars

(***************************************************************************)
(* The assembler's loop of migrate_covers_to_files followed by the sizes   *)
(* of its queue and its batches, with an engine that begins and commits    *)
(***************************************************************************)
\* bounded(500)
ChannelCapacity == 500

FillInit ==
    /\ MigIdle
    /\ CbIdle
    /\ RampIdle
    /\ EtaIdle
    /\ CallIdle
    /\ PoolIdle
    /\ RescanIdle
    /\ MergeIdle
    /\ fl_pc = "size"
    /\ fl_total_items \in 1..MaxFillItems
    /\ fl_extracted_count = 0
    /\ fl_rx_len = 0
    /\ fl_batch_size = 0
    /\ fl_pending_len = 0
    /\ fl_batch_items_len = 0
    /\ fl_items_sent = 0
    /\ fl_batches_sent = 0
    /\ fl_tx_open = 0
    /\ fl_begins = 0
    /\ fl_sizings = 0
    /\ fl_progress = NoProgress

\* a pool thread: let _ = tx.send(res); extracted_count.fetch_add(1)
FillSend ==
    /\ fl_extracted_count < fl_total_items
    /\ fl_rx_len < ChannelCapacity
    /\ fl_rx_len' = fl_rx_len + 1
    /\ fl_extracted_count' = fl_extracted_count + 1
    /\ UNCHANGED <<fl_pc, fl_total_items, fl_batch_size, fl_pending_len, fl_batch_items_len,
                   fl_items_sent, fl_batches_sent, fl_tx_open, fl_begins, fl_sizings,
                   fl_progress>>

\* let queue_depth = rx.len(); let batch_size = calculate_batch_size(..)
FillSize ==
    /\ fl_pc = "size"
    /\ fl_batch_size' = calculate_batch_size(fl_items_sent, fl_total_items, fl_rx_len)
    /\ fl_sizings' = fl_sizings + 1
    /\ fl_pc' = "collect"
    /\ UNCHANGED <<fl_total_items, fl_extracted_count, fl_rx_len, fl_pending_len,
                   fl_batch_items_len, fl_items_sent, fl_batches_sent, fl_tx_open, fl_begins,
                   fl_progress>>

\* the collect loop run one result past the target
FillCollect_past_target ==
    /\ fl_pc = "collect"
    /\ IF fl_pending_len > fl_batch_size
       THEN /\ fl_pc' = IF fl_pending_len = 0 THEN "exit" ELSE "begin"
            /\ UNCHANGED <<fl_pending_len, fl_rx_len>>
       ELSE IF fl_rx_len > 0
            THEN /\ fl_pending_len' = fl_pending_len + 1
                 /\ fl_rx_len' = fl_rx_len - 1
                 /\ fl_pc' = "collect"
            ELSE /\ fl_extracted_count >= fl_total_items
                 /\ fl_pc' = IF fl_pending_len = 0 THEN "exit" ELSE "begin"
                 /\ UNCHANGED <<fl_pending_len, fl_rx_len>>
    /\ UNCHANGED <<fl_total_items, fl_extracted_count, fl_batch_size, fl_batch_items_len,
                   fl_items_sent, fl_batches_sent, fl_tx_open, fl_begins, fl_sizings,
                   fl_progress>>

\* while pending.len() < batch_size: Ok(result) pushes it; Err(_) with every
\* result extracted ends the loop, otherwise the loop waits again. After the
\* loop: if pending.is_empty() { break; }
FillCollect ==
    /\ fl_pc = "collect"
    /\ IF fl_pending_len >= fl_batch_size
       THEN /\ fl_pc' = IF fl_pending_len = 0 THEN "exit" ELSE "begin"
            /\ UNCHANGED <<fl_pending_len, fl_rx_len>>
       ELSE IF fl_rx_len > 0
            THEN /\ fl_pending_len' = fl_pending_len + 1
                 /\ fl_rx_len' = fl_rx_len - 1
                 /\ fl_pc' = "collect"
            ELSE /\ fl_extracted_count >= fl_total_items
                 /\ fl_pc' = IF fl_pending_len = 0 THEN "exit" ELSE "begin"
                 /\ UNCHANGED <<fl_pending_len, fl_rx_len>>
    /\ UNCHANGED <<fl_total_items, fl_extracted_count, fl_batch_size, fl_batch_items_len,
                   fl_items_sent, fl_batches_sent, fl_tx_open, fl_begins, fl_sizings,
                   fl_progress>>

\* let tx_db = conn.transaction().unwrap(); let mut batch_items = Vec::new();
FillBegin ==
    /\ fl_pc = "begin"
    /\ fl_tx_open' = fl_tx_open + 1
    /\ fl_begins' = fl_begins + 1
    /\ fl_batch_items_len' = 0
    /\ fl_pc' = "update"
    /\ UNCHANGED <<fl_total_items, fl_extracted_count, fl_rx_len, fl_batch_size,
                   fl_pending_len, fl_items_sent, fl_batches_sent, fl_sizings, fl_progress>>

\* for result in &pending: the rows the engine accepts go to batch_items,
\* the others to errors
FillUpdate ==
    /\ fl_pc = "update"
    /\ \E refused \in {0, 1, fl_pending_len} :
         /\ refused <= fl_pending_len
         /\ fl_batch_items_len' = fl_pending_len - refused
    /\ fl_pc' = "commit"
    /\ UNCHANGED <<fl_total_items, fl_extracted_count, fl_rx_len, fl_batch_size,
                   fl_pending_len, fl_items_sent, fl_batches_sent, fl_tx_open, fl_begins,
                   fl_sizings, fl_progress>>

\* tx_db.commit().unwrap(); the counters; the emit; pending.clear();
\* if items_sent >= total_items { break; }
FillCommit ==
    /\ fl_pc = "commit"
    /\ fl_tx_open' = fl_tx_open - 1
    /\ fl_items_sent' = fl_items_sent + fl_batch_items_len
    /\ fl_batches_sent' = fl_batches_sent + 1
    /\ fl_progress' = [current |-> fl_items_sent', total |-> fl_total_items,
                       current_batch |-> fl_batches_sent', batch_size |-> fl_pending_len]
    /\ fl_pending_len' = 0
    /\ fl_pc' = IF fl_items_sent' >= fl_total_items THEN "exit" ELSE "size"
    /\ UNCHANGED <<fl_total_items, fl_extracted_count, fl_rx_len, fl_batch_size,
                   fl_batch_items_len, fl_begins, fl_sizings>>

FillAssembler == FillSize \/ FillCollect \/ FillBegin \/ FillUpdate \/ FillCommit

FillNext ==
    \/ (FillSend /\ UNCHANGED <<cbVars, rampVars, etaVars, callVars, poolVars, rescanVars, mergeVars,
                     migVars>>)
    \/ (FillAssembler /\ UNCHANGED <<cbVars, rampVars, etaVars, callVars, poolVars, rescanVars, mergeVars,
                     migVars>>)

FillSpec == FillInit /\ [][FillNext]_vars

(***************************************************************************)
(* rescan_music, phase 1: the folder read and cleanup_deleted_tracks, under *)
(* the connection lock, before the directory walk and the pipeline          *)
(***************************************************************************)
RECURSIVE Ascending(_)
\* the rows of a set of ids in the order the SELECT yields them
Ascending(ids) ==
    IF ids = {}
    THEN <<>>
    ELSE LET lo == CHOOSE i \in ids : \A j \in ids : i <= j
         IN <<lo>> \o Ascending(ids \ {lo})

RescanInit ==
    /\ MigIdle
    /\ CbIdle
    /\ RampIdle
    /\ EtaIdle
    /\ FillIdle
    /\ CallIdle
    /\ PoolIdle
    /\ MergeIdle
    /\ rs_pc = "idle"
    /\ rs_folders \in BOOLEAN
    /\ rs_tracks \in SUBSET RescanTracks
    /\ rs_tracks0 = rs_tracks
    /\ rs_present \in SUBSET RescanTracks
    /\ rs_rows = <<>>
    /\ rs_deleted = 0

\* db.conn.lock() or get_music_folders fails, or the prepare / query_map of
\* cleanup_deleted_tracks fails: `?` returns Err before any row is visited
RescanReadFail ==
    /\ rs_pc = "idle"
    /\ rs_pc' = "failed"
    /\ UNCHANGED <<rs_folders, rs_tracks, rs_tracks0, rs_present, rs_rows, rs_deleted>>

\* get_music_folders returns the folders; cleanup_deleted_tracks returns
\* Ok(0) at once for no folders, else prepares the SELECT over the tracks
RescanReadFolders ==
    /\ rs_pc = "idle"
    /\ IF rs_folders
       THEN /\ rs_rows' = Ascending(rs_tracks)
            /\ rs_pc' = "cleanup"
       ELSE /\ rs_rows' = <<>>
            /\ rs_pc' = "walk"
    /\ UNCHANGED <<rs_folders, rs_tracks, rs_tracks0, rs_present, rs_deleted>>

\* for track_result in track_rows: `track_result?`, then for a track whose
\* file is gone `conn.execute("DELETE FROM tracks WHERE id = ?1")?`; the
\* connection is in autocommit mode, each DELETE is durable at once
CleanupRow ==
    /\ rs_pc = "cleanup"
    /\ rs_rows # <<>>
    /\ \E read_ok \in BOOLEAN, delete_ok \in BOOLEAN :
         LET id == Head(rs_rows) IN
         IF ~read_ok
         THEN /\ rs_pc' = "failed"
              /\ UNCHANGED <<rs_tracks, rs_rows, rs_deleted>>
         ELSE IF id \in rs_present
              THEN /\ rs_rows' = Tail(rs_rows)
                   /\ UNCHANGED <<rs_pc, rs_tracks, rs_deleted>>
              ELSE IF delete_ok
                   THEN /\ rs_tracks' = rs_tracks \ {id}
                        /\ rs_deleted' = rs_deleted + 1
                        /\ rs_rows' = Tail(rs_rows)
                        /\ rs_pc' = rs_pc
                   ELSE /\ rs_pc' = "failed"
                        /\ UNCHANGED <<rs_tracks, rs_rows, rs_deleted>>
    /\ UNCHANGED <<rs_folders, rs_tracks0, rs_present>>

\* Ok(deleted_count); cleanup_empty_albums runs with its result ignored; the
\* guard is dropped and the directory walk starts
CleanupDone ==
    /\ rs_pc = "cleanup"
    /\ rs_rows = <<>>
    /\ rs_pc' = "walk"
    /\ UNCHANGED <<rs_folders, rs_tracks, rs_tracks0, rs_present, rs_rows, rs_deleted>>

RescanNext ==
    \/ (RescanReadFail /\ UNCHANGED <<pureVars, mergeVars, migVars>>)
    \/ (RescanReadFolders /\ UNCHANGED <<pureVars, mergeVars, migVars>>)
    \/ (CleanupRow /\ UNCHANGED <<pureVars, mergeVars, migVars>>)
    \/ (CleanupDone /\ UNCHANGED <<pureVars, mergeVars, migVars>>)

RescanSpec == RescanInit /\ [][RescanNext]_vars

(***************************************************************************)
(* merge_duplicate_covers: enumeration and the analysis workers            *)
(***************************************************************************)
TracksOf(album) == {t \in MergeTracks : t[1] = album}

\* outcomes of a call that can fail: Ok, and Err while failures are left
Outcomes == IF mg_faults < MaxMergeFaults THEN BOOLEAN ELSE {TRUE}

Spend(ok) == IF ok THEN mg_faults ELSE mg_faults + 1

\* the row id of a track; ids of one and of two digits occur
TrackId(t) == 8 + (t[1] - 1) * MaxMergeTracks + t[2]

\* format!("{}.{}", track_id, ext): the decimal digits of the id
RECURSIVE Digits(_)
Digits(n) == IF n < 10 THEN <<n>> ELSE Append(Digits(n \div 10), n % 10)

\* String::cmp on two file names: byte-wise, the '.' that ends the shorter
\* id sorts before every digit
SeqLess(a, b) ==
    \E k \in 1..Len(b) :
        /\ \A i \in 1..(k - 1) : i <= Len(a) /\ a[i] = b[i]
        /\ (k > Len(a) \/ a[k] < b[k])

PathLess(p, q) == SeqLess(Digits(TrackId(p)), Digits(TrackId(q)))

\* group.sort_by(|a, b| a.0.cmp(&b.0)); group[0]
FirstPath(S) == CHOOSE p \in S : \A q \in S \ {p} : PathLess(p, q)

\* the contents a cover file can have: "x" and "y" differ but have lengths
\* in the same kilobyte, "z" is longer
Contents == {"x", "y", "z"}

\* fs::metadata(..).len(): files of equal content have equal length
FileSize(p) ==
    IF mg_bytes[p] = "x" THEN 1024 ELSE IF mg_bytes[p] = "y" THEN 1500 ELSE 4096

\* let size_key = size / 1024
SizeKey(p) == FileSize(p) \div 1024

\* size_groups filtered to the groups of two or more files
FilesToHash(unique_covers) ==
    LET sized == unique_covers \cap mg_files
    IN {p \in sized : \E q \in sized \ {p} : SizeKey(q) = SizeKey(p)}

\* cover_groups: the hashed files bucketed by SHA-256, i.e. by content
CoverGroups(files_to_hash) ==
    {{q \in files_to_hash : mg_bytes[q] = mg_bytes[p]} : p \in files_to_hash}

MergeProducersDone == mg_todo = {} /\ \A w \in Workers : mg_w_pc[w] = "idle"

MergeStoreInit ==
    /\ MigIdle
    /\ CbIdle
    /\ RampIdle
    /\ EtaIdle
    /\ FillIdle
    /\ CallIdle
    /\ PoolIdle
    /\ RescanIdle
    /\ MergeFresh
    /\ mg_cover \in [MergeTracks -> MergeTracks \cup {NoCover}]
    /\ \A t \in MergeTracks : mg_cover[t] \in {t, NoCover}
    \* the track without a cover, if any, is the last of its album
    /\ \A t \in MergeTracks : mg_cover[t] = NoCover => t[2] = MaxMergeTracks
    /\ mg_files = {t \in MergeTracks : mg_cover[t] = t}
    /\ mg_bytes \in [MergeTracks -> Contents]
    \* contents are named in the order they first occur in an album
    /\ \A t \in MergeTracks : t[2] = 1 => mg_bytes[t] = "x"
    /\ \A t \in MergeTracks : mg_cover[t] = NoCover => mg_bytes[t] = "x"
    \* in the albums after the first every track has its cover and only the
    \* content of the second track varies
    /\ \A t \in MergeTracks :
          t[1] > 1 => /\ mg_cover[t] = t
                      /\ t[2] # 2 => mg_bytes[t] = "x"

MergeInit ==
    /\ MergeStoreInit
    /\ lib_albums = MergeAlbums
    /\ mg_faults = 0
    /\ mg_calls = MaxRuns

\* db.conn.lock(), prepare or query_map of the album list fails: `?`
MergeEnumerateFail ==
    /\ mg_pc \in {"idle", "returned", "failed"}
    /\ mg_calls > 0
    /\ mg_calls' = mg_calls - 1
    /\ MergeProducersDone
    /\ conn_owner = "none"
    /\ mg_pc' = "failed"
    /\ mg_results' = Append(mg_results, [kind |-> "enumerate", covers_merged |-> 0,
                                         space_saved_bytes |-> 0, albums_processed |-> 0,
                                         errors |-> <<>>])
    /\ mg_events' = <<>>
    /\ UNCHANGED <<total_albums, mergeStoreVars, mergeWorkerVars, mc_pc, mc_group, mc_buckets,
                   mc_updates, mc_txw, files_to_delete, covers_merged, space_saved_bytes,
                   mg_errors, conn_owner>>
    /\ mg_faults < MaxMergeFaults
    /\ mg_faults' = mg_faults + 1

\* SELECT DISTINCT album, album_id FROM tracks WHERE album IS NOT NULL
AlbumsOfRows == {album \in MergeAlbums : \E t \in TracksOf(album) : mg_cover[t] # NoRow}

\* SELECT DISTINCT album ..: every album of the tracks table; the channel,
\* the analysis thread and the consumer closure are created
MergeEnumerate ==
    /\ mg_pc \in {"idle", "returned", "failed"}
    /\ mg_calls > 0
    /\ mg_calls' = mg_calls - 1
    /\ MergeProducersDone
    /\ conn_owner = "none"
    /\ ~poisoned
    /\ mg_pc' = "running"
    /\ mg_todo' = AlbumsOfRows
    /\ total_albums' = Cardinality(AlbumsOfRows)
    /\ albums_processed' = 0
    /\ mg_chan' = <<>>
    /\ mc_pc' = "recv"
    /\ mc_group' = NoGroup
    /\ mc_buckets' = {}
    /\ mc_updates' = {}
    /\ mc_txw' = {}
    /\ files_to_delete' = {}
    /\ covers_merged' = 0
    /\ space_saved_bytes' = 0
    /\ mg_errors' = <<>>
    /\ mg_events' = <<>>
    /\ UNCHANGED <<mg_results, mergeStoreVars, mg_w_pc, mg_w_album, mg_w_tracks, mg_w_group,
                   conn_owner>>
    /\ UNCHANGED mg_faults

\* albums.par_iter().for_each: a pool thread takes an album and counts it
MgTake(w) ==
    /\ mg_w_pc[w] = "idle"
    /\ \A v \in Workers : v < w => mg_w_pc[v] # "idle"
    /\ \E album \in mg_todo :
         /\ mg_todo' = mg_todo \ {album}
         /\ mg_w_album' = [mg_w_album EXCEPT ![w] = album]
    /\ albums_processed' = albums_processed + 1
    /\ mg_w_pc' = [mg_w_pc EXCEPT ![w] = "lock"]
    /\ UNCHANGED <<mg_pc, total_albums, mg_results, mergeStoreVars, mg_w_tracks, mg_w_group,
                   mg_chan, consumerVars, conn_owner>>
    /\ UNCHANGED mg_faults

\* let conn = db_clone.conn.lock().unwrap()
MgLock(w) ==
    /\ mg_w_pc[w] = "lock"
    /\ conn_owner = "none"
    /\ conn_owner' = "analysis"
    /\ mg_w_pc' = [mg_w_pc EXCEPT ![w] = "query"]
    /\ UNCHANGED <<mg_pc, total_albums, mg_results, mergeStoreVars, mg_todo, albums_processed,
                   mg_w_album, mg_w_tracks, mg_w_group, mg_chan, consumerVars>>
    /\ UNCHANGED mg_faults

\* the guard of the query kept beyond its block
MgQuery_keeps_guard(w) ==
    /\ mg_w_pc[w] = "query"
    /\ mg_w_tracks' = [mg_w_tracks EXCEPT ![w] =
                         {<<t, mg_cover[t]>> : t \in {u \in TracksOf(mg_w_album[w]) :
                                                        mg_cover[u] \notin {NoCover, NoRow}}}]
    /\ conn_owner' = conn_owner
    /\ mg_w_pc' = [mg_w_pc EXCEPT ![w] = "analyse"]
    /\ UNCHANGED <<mg_pc, total_albums, mg_results, mergeStoreVars, mg_todo, albums_processed,
                   mg_w_album, mg_w_group, mg_chan, consumerVars>>
    /\ UNCHANGED mg_faults

\* SELECT id, track_cover_path FROM tracks WHERE album = ? AND
\* track_cover_path IS NOT NULL AND != ''; the guard is dropped with the block
MgQuery(w) ==
    /\ mg_w_pc[w] = "query"
    /\ mg_w_tracks' = [mg_w_tracks EXCEPT ![w] =
                         {<<t, mg_cover[t]>> : t \in {u \in TracksOf(mg_w_album[w]) :
                                                        mg_cover[u] \notin {NoCover, NoRow}}}]
    /\ conn_owner' = "none"
    /\ mg_w_pc' = [mg_w_pc EXCEPT ![w] = "analyse"]
    /\ UNCHANGED <<mg_pc, total_albums, mg_results, mergeStoreVars, mg_todo, albums_processed,
                   mg_w_album, mg_w_group, mg_chan, consumerVars>>
    /\ UNCHANGED mg_faults

\* the group sent whenever something was hashed
MgAnalyse_always_send(w) ==
    /\ mg_w_pc[w] = "analyse"
    /\ LET tracks == mg_w_tracks[w]
           unique_covers == {r[2] : r \in tracks}
       IN \E unread \in SUBSET (unique_covers \cap mg_files) :
            LET files_to_hash == FilesToHash(unique_covers \ unread)
                cover_groups == CoverGroups(files_to_hash)
            IN /\ Cardinality(unread) <= MaxMergeFaults - mg_faults
               /\ (Cardinality(tracks) < 2 \/ Cardinality(unique_covers) < 2) => unread = {}
               /\ mg_faults' = mg_faults + Cardinality(unread)
               /\ IF /\ Cardinality(tracks) >= 2
                     /\ Cardinality(unique_covers) >= 2
                     /\ files_to_hash # {}
                  THEN /\ mg_w_group' = [mg_w_group EXCEPT ![w] =
                                            [album_name |-> mg_w_album[w],
                                             cover_groups |-> cover_groups,
                                             filepath_to_tracks |-> tracks]]
                       /\ mg_w_pc' = [mg_w_pc EXCEPT ![w] = "send"]
                       /\ UNCHANGED <<mg_w_album, mg_w_tracks>>
                  ELSE /\ mg_w_pc' = [mg_w_pc EXCEPT ![w] = "idle"]
                       /\ mg_w_album' = [mg_w_album EXCEPT ![w] = 0]
                       /\ mg_w_tracks' = [mg_w_tracks EXCEPT ![w] = {}]
                       /\ UNCHANGED mg_w_group
    /\ UNCHANGED <<mg_pc, total_albums, mg_results, mergeStoreVars, mg_todo, albums_processed,
                   mg_chan, consumerVars, conn_owner>>

\* group by path, pre-filter by size, hash, bucket; the task returns early
\* with fewer than two rows, fewer than two paths, nothing to hash or no
\* bucket of two. A file whose fs::metadata or get_file_hash fails (unread)
\* is left out without a word
MgAnalyse(w) ==
    /\ mg_w_pc[w] = "analyse"
    /\ LET tracks == mg_w_tracks[w]
           unique_covers == {r[2] : r \in tracks}
       IN \E unread \in SUBSET (unique_covers \cap mg_files) :
            LET files_to_hash == FilesToHash(unique_covers \ unread)
                cover_groups == CoverGroups(files_to_hash)
                has_duplicates == \E group \in cover_groups : Cardinality(group) >= 2
            IN /\ Cardinality(unread) <= MaxMergeFaults - mg_faults
               /\ (Cardinality(tracks) < 2 \/ Cardinality(unique_covers) < 2) => unread = {}
               /\ mg_faults' = mg_faults + Cardinality(unread)
               /\ IF /\ Cardinality(tracks) >= 2
                     /\ Cardinality(unique_covers) >= 2
                     /\ files_to_hash # {}
                     /\ has_duplicates
                  THEN /\ mg_w_group' = [mg_w_group EXCEPT ![w] =
                                            [album_name |-> mg_w_album[w],
                                             cover_groups |-> cover_groups,
                                             filepath_to_tracks |-> tracks]]
                       /\ mg_w_pc' = [mg_w_pc EXCEPT ![w] = "send"]
                       /\ UNCHANGED <<mg_w_album, mg_w_tracks>>
                  ELSE /\ mg_w_pc' = [mg_w_pc EXCEPT ![w] = "idle"]
                       /\ mg_w_album' = [mg_w_album EXCEPT ![w] = 0]
                       /\ mg_w_tracks' = [mg_w_tracks EXCEPT ![w] = {}]
                       /\ UNCHANGED mg_w_group
    /\ UNCHANGED <<mg_pc, total_albums, mg_results, mergeStoreVars, mg_todo, albums_processed,
                   mg_chan, consumerVars, conn_owner>>

\* rx lives in the consumer closure until the closure returns
MergeRxAlive == mc_pc \notin {"idle", "done"}

\* let _ = tx_for_spawn.send(AlbumCoverGroup {..}): blocks while the channel
\* is full, fails at once when the receiver is gone
MgSend(w) ==
    /\ mg_w_pc[w] = "send"
    /\ IF MergeRxAlive
       THEN /\ Len(mg_chan) < MergeChanCap
            /\ mg_chan' = Append(mg_chan, mg_w_group[w])
       ELSE mg_chan' = mg_chan
    /\ mg_w_pc' = [mg_w_pc EXCEPT ![w] = "idle"]
    /\ mg_w_album' = [mg_w_album EXCEPT ![w] = 0]
    /\ mg_w_tracks' = [mg_w_tracks EXCEPT ![w] = {}]
    /\ mg_w_group' = [mg_w_group EXCEPT ![w] = NoGroup]
    /\ UNCHANGED <<mg_pc, total_albums, mg_results, mergeStoreVars, mg_todo, albums_processed,
                   consumerVars, conn_owner>>
    /\ UNCHANGED mg_faults

MergeWorker(w) == MgTake(w) \/ MgLock(w) \/ MgQuery(w) \/ MgAnalyse(w) \/ MgSend(w)

(***************************************************************************)
(* merge_duplicate_covers: the consumer closure, `for album_group in       *)
(* rx.iter()`                                                              *)
(***************************************************************************)
\* the first of a set of paths or tracks in sorted order
First(S) == CHOOSE p \in S : \A q \in S : p[1] < q[1] \/ (p[1] = q[1] /\ p[2] <= q[2])

MergeSnapshot ==
    [type |-> "batch", current_album |-> albums_processed, total_albums |-> total_albums,
     covers_merged |-> covers_merged, space_saved_bytes |-> space_saved_bytes,
     errors |-> <<>>, delivered |-> TRUE]

\* rx.iter() yields the next group; buckets of one file are skipped
McRecv ==
    /\ mc_pc = "recv"
    /\ mg_chan # <<>>
    /\ mc_group' = Head(mg_chan)
    /\ mg_chan' = Tail(mg_chan)
    /\ mc_buckets' = {group \in Head(mg_chan).cover_groups : Cardinality(group) >= 2}
    /\ mc_pc' = "group"
    /\ UNCHANGED <<mg_pc, total_albums, mg_results, mergeStoreVars, mg_todo, albums_processed,
                   mg_w_pc, mg_w_album, mg_w_tracks, mg_w_group, mc_updates, mc_txw,
                   files_to_delete, covers_merged, space_saved_bytes, mg_errors, mg_events,
                   conn_owner>>
    /\ UNCHANGED mg_faults

\* rx.iter() ends: the channel is empty and the analysis thread has dropped
\* its sender
McDone ==
    /\ mc_pc = "recv"
    /\ mg_chan = <<>>
    /\ MergeProducersDone
    /\ mc_pc' = "done"
    /\ UNCHANGED <<mg_pc, total_albums, mg_results, mergeStoreVars, mergeWorkerVars, mc_group,
                   mc_buckets, mc_updates, mc_txw, files_to_delete, covers_merged,
                   space_saved_bytes, mg_errors, mg_events, conn_owner>>
    /\ UNCHANGED mg_faults

\* the bucket taken in the order the fold and reduce left it
McGroup_unsorted ==
    /\ mc_pc = "group"
    /\ IF mc_buckets = {}
       THEN /\ \E emit_ok \in Outcomes :
                 /\ mg_events' = Emit(mg_events, MergeSnapshot, emit_ok)
                 /\ mg_faults' = Spend(emit_ok)
            /\ mc_pc' = "recv"
            /\ mc_group' = NoGroup
            /\ UNCHANGED <<mc_buckets, mc_updates, files_to_delete>>
       ELSE \E group \in mc_buckets :
              \E canonical_cover \in group :
              LET updates == {<<r[1], canonical_cover>> :
                                r \in {x \in mc_group.filepath_to_tracks :
                                         x[2] \in group \ {canonical_cover}}}
              IN /\ mc_buckets' = mc_buckets \ {group}
                 /\ mc_updates' = updates
                 /\ files_to_delete' = group \ {canonical_cover}
                 /\ mc_pc' = IF updates # {} THEN "lock" ELSE "delete"
                 /\ UNCHANGED <<mc_group, mg_events, mg_faults>>
    /\ UNCHANGED <<mg_pc, total_albums, mg_results, mergeStoreVars, mergeWorkerVars, mc_txw,
                   covers_merged, space_saved_bytes, mg_errors, conn_owner>>

\* the next bucket: sort, canonical_cover = group[0], collect updates and
\* files_to_delete; after the last bucket emit "merge-batch-ready"
McGroup ==
    /\ mc_pc = "group"
    /\ IF mc_buckets = {}
       THEN /\ \E emit_ok \in Outcomes :
                 /\ mg_events' = Emit(mg_events, MergeSnapshot, emit_ok)
                 /\ mg_faults' = Spend(emit_ok)
            /\ mc_pc' = "recv"
            /\ mc_group' = NoGroup
            /\ UNCHANGED <<mc_buckets, mc_updates, files_to_delete>>
       ELSE \E group \in mc_buckets :
              LET canonical_cover == FirstPath(group)
                  updates == {<<r[1], canonical_cover>> :
                                r \in {x \in mc_group.filepath_to_tracks :
                                         x[2] \in group \ {canonical_cover}}}
              IN /\ mc_buckets' = mc_buckets \ {group}
                 /\ mc_updates' = updates
                 /\ files_to_delete' = group \ {canonical_cover}
                 /\ mc_pc' = IF updates # {} THEN "lock" ELSE "delete"
                 /\ UNCHANGED <<mc_group, mg_events, mg_faults>>
    /\ UNCHANGED <<mg_pc, total_albums, mg_results, mergeStoreVars, mergeWorkerVars, mc_txw,
                   covers_merged, space_saved_bytes, mg_errors, conn_owner>>

\* let mut conn = db_conn.lock().unwrap()
McLock ==
    /\ mc_pc = "lock"
    /\ conn_owner = "none"
    /\ conn_owner' = "consumer"
    /\ mc_pc' = "begin"
    /\ UNCHANGED <<mg_pc, total_albums, mg_results, mergeStoreVars, mergeWorkerVars, mc_group,
                   mc_buckets, mc_updates, mc_txw, files_to_delete, covers_merged,
                   space_saved_bytes, mg_errors, mg_events>>
    /\ UNCHANGED mg_faults

\* conn.transaction(): Ok opens the transaction, Err is pushed to errors
\* and `continue` leaves the bucket, dropping the guard
McBegin ==
    /\ mc_pc = "begin"
    /\ \E begin_ok \in Outcomes :
         /\ mg_faults' = Spend(begin_ok)
         /\ IF begin_ok
            THEN /\ mc_txw' = {}
                 /\ mc_pc' = "update"
                 /\ UNCHANGED <<mc_updates, files_to_delete, mg_errors, conn_owner>>
            ELSE /\ mg_errors' = Append(mg_errors, <<"transaction", mc_group.album_name>>)
                 /\ mc_updates' = {}
                 /\ files_to_delete' = {}
                 /\ mc_txw' = {}
                 /\ conn_owner' = "none"
                 /\ mc_pc' = "group"
    /\ UNCHANGED <<mg_pc, total_albums, mg_results, mergeStoreVars, mergeWorkerVars, mc_group,
                   mc_buckets, covers_merged, space_saved_bytes, mg_events>>

\* for (track_id, canonical_path) in &updates: tx_db.execute(UPDATE ..); a
\* failing row is pushed to errors and the loop goes on
McUpdate ==
    /\ mc_pc = "update"
    /\ IF mc_updates = {}
       THEN /\ mc_pc' = "commit"
            /\ UNCHANGED <<mc_updates, mc_txw, mg_errors, mg_faults>>
       ELSE LET u == CHOOSE x \in mc_updates : x[1] = First({y[1] : y \in mc_updates}) IN
            \E row_ok \in Outcomes :
              /\ mg_faults' = Spend(row_ok)
              /\ mc_updates' = mc_updates \ {u}
              /\ mc_txw' = IF row_ok THEN mc_txw \cup {u} ELSE mc_txw
              /\ mg_errors' = IF row_ok THEN mg_errors ELSE Append(mg_errors, <<"update", u[1]>>)
              /\ mc_pc' = "update"
    /\ UNCHANGED <<mg_pc, total_albums, mg_results, mergeStoreVars, mergeWorkerVars, mc_group,
                   mc_buckets, files_to_delete, covers_merged, space_saved_bytes, mg_events,
                   conn_owner>>

\* the commit error pushed without the `continue`
McCommit_no_continue ==
    /\ mc_pc = "commit"
    /\ \E commit_ok \in Outcomes :
         /\ mg_faults' = Spend(commit_ok)
         /\ IF commit_ok
            THEN /\ mg_cover' = [t \in MergeTracks |->
                                   IF mg_cover[t] # NoRow /\ \E u \in mc_txw : u[1] = t
                                   THEN (CHOOSE u \in mc_txw : u[1] = t)[2]
                                   ELSE mg_cover[t]]
                 /\ UNCHANGED mg_errors
            ELSE /\ mg_errors' = Append(mg_errors, <<"commit", mc_group.album_name>>)
                 /\ UNCHANGED mg_cover
    /\ mc_pc' = "delete"
    /\ mc_txw' = {}
    /\ conn_owner' = "none"
    /\ UNCHANGED <<mg_pc, total_albums, mg_results, mg_files, mg_bytes, mergeWorkerVars,
                   mc_group, mc_buckets, mc_updates, files_to_delete, covers_merged,
                   space_saved_bytes, mg_events>>

\* tx_db.commit(): Ok makes the row updates durable (an UPDATE of a row that
\* is gone changes nothing); Err is pushed to
\* errors and `continue` skips the deletion; the guard is dropped either way
McCommit ==
    /\ mc_pc = "commit"
    /\ \E commit_ok \in Outcomes :
         /\ mg_faults' = Spend(commit_ok)
         /\ IF commit_ok
            THEN /\ mg_cover' = [t \in MergeTracks |->
                                   IF mg_cover[t] # NoRow /\ \E u \in mc_txw : u[1] = t
                                   THEN (CHOOSE u \in mc_txw : u[1] = t)[2]
                                   ELSE mg_cover[t]]
                 /\ mc_pc' = "delete"
                 /\ UNCHANGED <<files_to_delete, mg_errors>>
            ELSE /\ mg_errors' = Append(mg_errors, <<"commit", mc_group.album_name>>)
                 /\ files_to_delete' = {}
                 /\ mc_pc' = "group"
                 /\ UNCHANGED mg_cover
    /\ mc_txw' = {}
    /\ conn_owner' = "none"
    /\ UNCHANGED <<mg_pc, total_albums, mg_results, mg_files, mg_bytes, mergeWorkerVars,
                   mc_group, mc_buckets, mc_updates, covers_merged, space_saved_bytes,
                   mg_events>>

\* the counters raised before the outcome of remove_file is known
McDelete_counted_before ==
    /\ mc_pc = "delete"
    /\ IF files_to_delete = {}
       THEN /\ mc_pc' = "group"
            /\ UNCHANGED <<mg_files, files_to_delete, covers_merged, space_saved_bytes,
                           mg_errors, mg_faults>>
       ELSE LET old_cover_path == FirstPath(files_to_delete) IN
            /\ files_to_delete' = files_to_delete \ {old_cover_path}
            /\ mc_pc' = "delete"
            /\ IF old_cover_path \in mg_files
               THEN \E remove_ok \in Outcomes :
                      /\ mg_faults' = Spend(remove_ok)
                      /\ IF remove_ok
                         THEN /\ mg_files' = mg_files \ {old_cover_path}
                              /\ covers_merged' = covers_merged + 1
                              /\ space_saved_bytes' =
                                    space_saved_bytes + FileSize(old_cover_path)
                              /\ UNCHANGED mg_errors
                         ELSE /\ mg_errors' = Append(mg_errors, <<"delete", old_cover_path>>)
                              /\ covers_merged' = covers_merged + 1
                              /\ space_saved_bytes' =
                                    space_saved_bytes + FileSize(old_cover_path)
                              /\ UNCHANGED mg_files
               ELSE UNCHANGED <<mg_files, covers_merged, space_saved_bytes, mg_errors,
                                mg_faults>>
    /\ UNCHANGED <<mg_pc, total_albums, mg_results, mg_cover, mg_bytes, mergeWorkerVars,
                   mc_group, mc_buckets, mc_updates, mc_txw, mg_events, conn_owner>>

\* the NotFound arm missing: a file already gone is pushed to errors
McDelete_notfound_reported ==
    /\ mc_pc = "delete"
    /\ IF files_to_delete = {}
       THEN /\ mc_pc' = "group"
            /\ UNCHANGED <<mg_files, files_to_delete, covers_merged, space_saved_bytes,
                           mg_errors, mg_faults>>
       ELSE LET old_cover_path == FirstPath(files_to_delete) IN
            /\ files_to_delete' = files_to_delete \ {old_cover_path}
            /\ mc_pc' = "delete"
            /\ IF old_cover_path \in mg_files
               THEN \E remove_ok \in Outcomes :
                      /\ mg_faults' = Spend(remove_ok)
                      /\ IF remove_ok
                         THEN /\ mg_files' = mg_files \ {old_cover_path}
                              /\ covers_merged' = covers_merged + 1
                              /\ space_saved_bytes' =
                                    space_saved_bytes + FileSize(old_cover_path)
                              /\ UNCHANGED mg_errors
                         ELSE /\ mg_errors' = Append(mg_errors, <<"delete", old_cover_path>>)
                              /\ UNCHANGED <<mg_files, covers_merged, space_saved_bytes>>
               ELSE /\ mg_errors' = Append(mg_errors, <<"delete", old_cover_path>>)
                    /\ UNCHANGED <<mg_files, covers_merged, space_saved_bytes, mg_faults>>
    /\ UNCHANGED <<mg_pc, total_albums, mg_results, mg_cover, mg_bytes, mergeWorkerVars,
                   mc_group, mc_buckets, mc_updates, mc_txw, mg_events, conn_owner>>

\* for (old_cover_path, file_size) in files_to_delete: fs::remove_file; Ok
\* counts the file, NotFound is ignored, any other error is pushed to errors
McDelete ==
    /\ mc_pc = "delete"
    /\ IF files_to_delete = {}
       THEN /\ mc_pc' = "group"
            /\ UNCHANGED <<mg_files, files_to_delete, covers_merged, space_saved_bytes,
                           mg_errors, mg_faults>>
       ELSE LET old_cover_path == FirstPath(files_to_delete) IN
            /\ files_to_delete' = files_to_delete \ {old_cover_path}
            /\ mc_pc' = "delete"
            /\ IF old_cover_path \in mg_files
               THEN \E remove_ok \in Outcomes :
                      /\ mg_faults' = Spend(remove_ok)
                      /\ IF remove_ok
                         THEN /\ mg_files' = mg_files \ {old_cover_path}
                              /\ covers_merged' = covers_merged + 1
                              /\ space_saved_bytes' =
                                    space_saved_bytes + FileSize(old_cover_path)
                              /\ UNCHANGED mg_errors
                         ELSE /\ mg_errors' = Append(mg_errors, <<"delete", old_cover_path>>)
                              /\ UNCHANGED <<mg_files, covers_merged, space_saved_bytes>>
               ELSE UNCHANGED <<mg_files, covers_merged, space_saved_bytes, mg_errors,
                                mg_faults>>
    /\ UNCHANGED <<mg_pc, total_albums, mg_results, mg_cover, mg_bytes, mergeWorkerVars,
                   mc_group, mc_buckets, mc_updates, mc_txw, mg_events, conn_owner>>

Consumer == McRecv \/ McDone \/ McGroup \/ McLock \/ McBegin \/ McUpdate \/ McCommit \/ McDelete

\* the closure returned (covers_merged, space_saved_bytes, errors): emit
\* "merge-complete" and return Ok(MergeCoverResult)
MergeReturn ==
    /\ mg_pc = "running"
    /\ mc_pc = "done"
    /\ LET r == [kind |-> "ok", covers_merged |-> covers_merged,
                 space_saved_bytes |-> space_saved_bytes,
                 albums_processed |-> albums_processed, errors |-> mg_errors]
       IN /\ mg_results' = Append(mg_results, r)
          /\ \E emit_ok \in Outcomes :
               /\ mg_faults' = Spend(emit_ok)
               /\ mg_events' = Emit(mg_events,
                                    [type |-> "complete", current_album |-> albums_processed,
                                     total_albums |-> total_albums,
                                     covers_merged |-> covers_merged,
                                     space_saved_bytes |-> space_saved_bytes,
                                     errors |-> mg_errors, delivered |-> TRUE], emit_ok)
    /\ mg_pc' = "returned"
    /\ mc_pc' = "idle"
    /\ UNCHANGED <<total_albums, mergeStoreVars, mergeWorkerVars, mc_group, mc_buckets,
                   mc_updates, mc_txw, files_to_delete, covers_merged, space_saved_bytes,
                   mg_errors, conn_owner>>
    /\ UNCHANGED mg_calls

MergeMain == MergeEnumerateFail \/ MergeEnumerate \/ MergeReturn

\* the variables of migrate_covers_to_files other than the connection mutex
migRestVars == <<cmdVars, db, db0, files, tx_state, txw, workerVars, asmVars>>

\* the variables only the commands of the library change
mergeRestVars == <<pureVars, rescanVars, migRestVars, libVars>>

MergeNext ==
    \/ (MergeMain /\ UNCHANGED mergeRestVars)
    \/ ((\E w \in Workers : MergeWorker(w)) /\ UNCHANGED <<mergeRestVars, mg_calls>>)
    \/ (Consumer /\ UNCHANGED <<mergeRestVars, mg_calls>>)

MergeSpec == MergeInit /\ [][MergeNext]_vars

\* the merge under fair scheduling: every pool thread, the consumer closure
\* and the command awaiting it keep running while they can; in the store
\* it starts from only the second track of an album varies, and the engine
\* fails once at most
MergeLiveInit ==
    /\ MergeStoreInit
    /\ \A t \in MergeTracks : t[2] # 2 => (mg_cover[t] = t /\ mg_bytes[t] = "x")
    /\ lib_albums = MergeAlbums
    /\ mg_faults = MaxMergeFaults - 1
    /\ mg_calls = MaxRuns

MergeLiveSpec ==
    /\ MergeLiveInit
    /\ [][MergeNext]_vars
    /\ WF_vars(MergeReturn /\ UNCHANGED mergeRestVars)
    /\ WF_vars(Consumer /\ UNCHANGED <<mergeRestVars, mg_calls>>)
    /\ \A w \in Workers : WF_vars(MergeWorker(w) /\ UNCHANGED <<mergeRestVars, mg_calls>>)

(***************************************************************************)
(* The library around one merge: delete_track, the cleanup of a rescan and *)
(* cleanup_orphaned_covers, each under the connection guard for its whole  *)
(* body                                                                    *)
(***************************************************************************)
Rows == {t \in MergeTracks : mg_cover[t] # NoRow}

\* DELETE FROM albums WHERE id NOT IN (SELECT DISTINCT album_id FROM tracks ..)
EmptyAlbumsCleaned(cover) ==
    {album \in lib_albums : \E t \in TracksOf(album) : cover[t] # NoRow}

\* commands/library.rs delete_track: the row's cover file is removed (the
\* Result dropped), then the row is deleted (`?`), then the empty albums
DeleteTrack(t) ==
    /\ conn_owner = "none"
    /\ lib_removed < MaxRemovals
    /\ t \in Rows
    /\ \E remove_ok \in Outcomes, delete_ok \in Outcomes :
         LET cover_path == mg_cover[t]
             exists == cover_path # NoCover /\ cover_path \in mg_files
             cover == IF delete_ok THEN [mg_cover EXCEPT ![t] = NoRow] ELSE mg_cover
         IN /\ ~exists => remove_ok
            /\ mg_faults' = Spend(remove_ok) + (IF delete_ok THEN 0 ELSE 1)
            /\ mg_faults' <= MaxMergeFaults
            /\ mg_files' = IF exists /\ remove_ok THEN mg_files \ {cover_path} ELSE mg_files
            /\ mg_cover' = cover
            /\ lib_albums' = IF delete_ok THEN EmptyAlbumsCleaned(cover) ELSE lib_albums
            /\ lib_removed' = IF delete_ok THEN lib_removed + 1 ELSE lib_removed
    /\ UNCHANGED <<lib_art, lib_stray, oc_results>>

\* rescan_music: cleanup_deleted_tracks deletes the rows of the tracks whose
\* audio file is gone and leaves their cover files; then the empty albums
CleanupDeletedTracks ==
    /\ conn_owner = "none"
    /\ lib_removed < MaxRemovals
    /\ \E gone \in SUBSET Rows :
         /\ gone # {}
         /\ lib_removed + Cardinality(gone) <= MaxRemovals
         /\ lib_removed' = lib_removed + Cardinality(gone)
         /\ mg_cover' = [t \in MergeTracks |-> IF t \in gone THEN NoRow ELSE mg_cover[t]]
         /\ lib_albums' = EmptyAlbumsCleaned(mg_cover')
    /\ UNCHANGED <<mg_files, mg_faults, lib_art, lib_stray, oc_results>>

\* path.file_stem().parse::<i64>() of a cover file first written for a track
RECURSIVE ParseI64(_)
ParseI64(digits) ==
    IF digits = <<>> THEN 0
    ELSE 10 * ParseI64(SubSeq(digits, 1, Len(digits) - 1)) + digits[Len(digits)]

StemId(p) == ParseI64(Digits(TrackId(p)))

\* files of the tracks directory whose id is in no row of tracks
OrphanCovers == {p \in mg_files : StemId(p) \notin {TrackId(t) : t \in Rows}}

\* files of the albums directory whose id is in no row of albums
OrphanArt == {a \in lib_art : a \notin lib_albums}

\* the sweep counting the files it failed to remove as well
CleanupOrphanedCovers_counts_failed ==
    /\ conn_owner = "none"
    /\ Len(oc_results) < MaxRemovals
    /\ \E stop \in {"none", "tracks", "albums"},
          failed_covers \in SUBSET OrphanCovers, failed_art \in SUBSET OrphanArt :
         LET removed_covers == IF stop = "tracks" THEN {} ELSE OrphanCovers \ failed_covers
             removed_art == IF stop = "none" THEN OrphanArt \ failed_art ELSE {}
             deleted_count == Cardinality(removed_covers) + Cardinality(removed_art)
                              + Cardinality(failed_covers) + Cardinality(failed_art)
         IN /\ stop = "tracks" => failed_covers = {}
            /\ stop # "none" => failed_art = {}
            /\ mg_faults' = mg_faults + Cardinality(failed_covers) + Cardinality(failed_art)
                                + (IF stop = "none" THEN 0 ELSE 1)
            /\ mg_faults' <= MaxMergeFaults
            /\ mg_files' = mg_files \ removed_covers
            /\ lib_art' = lib_art \ removed_art
            /\ oc_results' = Append(oc_results,
                                    IF stop = "none"
                                    THEN [kind |-> "ok", deleted_count |-> deleted_count]
                                    ELSE [kind |-> "err", deleted_count |-> 0])
    /\ UNCHANGED <<mg_cover, lib_albums, lib_removed, lib_stray>>

\* scanner/cover_storage.rs cleanup_orphaned_covers: the ids of both tables
\* are read, the tracks directory is swept, then the albums directory. A
\* failing query or read_dir returns Err (stop), a failing remove_file is
\* printed and the file left (failed)
CleanupOrphanedCovers ==
    /\ conn_owner = "none"
    /\ Len(oc_results) < MaxRemovals
    /\ \E stop \in {"none", "tracks", "albums"},
          failed_covers \in SUBSET OrphanCovers, failed_art \in SUBSET OrphanArt :
         LET removed_covers == IF stop = "tracks" THEN {} ELSE OrphanCovers \ failed_covers
             removed_art == IF stop = "none" THEN OrphanArt \ failed_art ELSE {}
             deleted_count == Cardinality(removed_covers) + Cardinality(removed_art)
         IN /\ stop = "tracks" => failed_covers = {}
            /\ stop # "none" => failed_art = {}
            /\ mg_faults' = mg_faults + Cardinality(failed_covers) + Cardinality(failed_art)
                                + (IF stop = "none" THEN 0 ELSE 1)
            /\ mg_faults' <= MaxMergeFaults
            /\ mg_files' = mg_files \ removed_covers
            /\ lib_art' = lib_art \ removed_art
            /\ oc_results' = Append(oc_results,
                                    IF stop = "none"
                                    THEN [kind |-> "ok", deleted_count |-> deleted_count]
                                    ELSE [kind |-> "err", deleted_count |-> 0])
    /\ UNCHANGED <<mg_cover, lib_albums, lib_removed, lib_stray>>

LibraryCommand == (\E t \in MergeTracks : DeleteTrack(t)) \/ CleanupDeletedTracks
                      \/ CleanupOrphanedCovers

\* everything of the merge but the rows, the files and the failure count
mergeRunVars == <<mg_pc, total_albums, mg_results, mg_calls, mg_bytes, mergeWorkerVars,
                  consumerVars>>

\* one merge of a library of one album in which every track has a cover
\* file and the cover files are byte-identical; at most one failure
LibraryInit ==
    /\ MigIdle
    /\ CbIdle
    /\ RampIdle
    /\ EtaIdle
    /\ FillIdle
    /\ CallIdle
    /\ PoolIdle
    /\ RescanIdle
    /\ MergeFresh
    /\ mg_cover = [t \in MergeTracks |-> IF t[1] = 1 THEN t ELSE NoRow]
    /\ mg_files = TracksOf(1)
    /\ mg_bytes = [t \in MergeTracks |-> "x"]
    /\ lib_albums = {1}
    /\ mg_faults = MaxMergeFaults - 1
    /\ mg_calls = 1

LibraryNext ==
    \/ MergeNext
    \/ (LibraryCommand /\ UNCHANGED <<pureVars, rescanVars, migVars, mergeRunVars>>)

LibrarySpec == LibraryInit /\ [][LibraryNext]_vars

(***************************************************************************)
(* commands/library.rs: the pipeline of rescan_music by counts, and beside *)
(* it the analysis tasks and the consumer of merge_duplicate_covers on the *)
(* same pool and the same db.conn                                          *)
(***************************************************************************)
PoolUnchanged == UNCHANGED <<cbVars, rampVars, etaVars, fillVars, callVars, rescanVars,
                             mergeVars, migVars>>

\* the pool thread a new job goes to: idle threads are interchangeable
FirstIdle(w) ==
    /\ pl_thread[w] = "idle"
    /\ \A v \in Workers : v < w => pl_thread[v] # "idle"

\* rx of the rescan lives in its closure until the closure returns or unwinds
ScanRxAlive == pl_asm \notin {"idle", "returned", "panicked"}

ScanInit ==
    /\ MigIdle
    /\ CbIdle
    /\ RampIdle
    /\ EtaIdle
    /\ FillIdle
    /\ CallIdle
    /\ RescanIdle
    /\ MergeIdle
    /\ pl_lock = "none"
    /\ pl_thread = [w \in Workers |-> "idle"]
    /\ pl_total_files \in 1..MaxScanFiles
    /\ pl_all_files = pl_total_files
    /\ pl_extracted_count = 0
    /\ pl_rx_len = 0
    /\ pl_asm = "lock"
    /\ pl_batch_size = 0
    /\ pl_pending_len = 0
    /\ pl_tracks_sent = 0
    /\ pl_stamped = 0
    /\ pl_albums = 0
    /\ pl_groups = 0
    /\ pl_consumer = "idle"

\* all_files.par_iter().for_each: extract_metadata(file_path), which
\* returns Some for every file
PlExtract(w) ==
    /\ FirstIdle(w)
    /\ pl_all_files > 0
    /\ pl_all_files' = pl_all_files - 1
    /\ pl_thread' = [pl_thread EXCEPT ![w] = "send"]
    /\ UNCHANGED <<pl_lock, pl_total_files, pl_extracted_count, pl_rx_len, pl_asm,
                   pl_batch_size, pl_pending_len, pl_tracks_sent, pl_stamped, pl_albums,
                   pl_groups, pl_consumer>>

\* let _ = tx.send(track_data): blocks while the channel is full, fails at
\* once when the receiver is gone
PlSend(w) ==
    /\ pl_thread[w] = "send"
    /\ IF ScanRxAlive
       THEN /\ pl_rx_len < ChanCap
            /\ pl_rx_len' = pl_rx_len + 1
       ELSE pl_rx_len' = pl_rx_len
    /\ pl_thread' = [pl_thread EXCEPT ![w] = "inc"]
    /\ UNCHANGED <<pl_lock, pl_all_files, pl_total_files, pl_extracted_count, pl_asm,
                   pl_batch_size, pl_pending_len, pl_tracks_sent, pl_stamped, pl_albums,
                   pl_groups, pl_consumer>>

\* extracted_count_clone.fetch_add(1, Ordering::Relaxed)
PlInc(w) ==
    /\ pl_thread[w] = "inc"
    /\ pl_extracted_count' = pl_extracted_count + 1
    /\ pl_thread' = [pl_thread EXCEPT ![w] = "idle"]
    /\ UNCHANGED <<pl_lock, pl_all_files, pl_total_files, pl_rx_len, pl_asm, pl_batch_size,
                   pl_pending_len, pl_tracks_sent, pl_stamped, pl_albums, pl_groups,
                   pl_consumer>>

ScanWorker(w) == PlExtract(w) \/ PlSend(w) \/ PlInc(w)

\* let mut conn = db_conn.lock().unwrap(): the guard lives until the
\* closure returns
PlAsmLock ==
    /\ pl_asm = "lock"
    /\ pl_lock = "none"
    /\ pl_lock' = "assembler"
    /\ pl_asm' = "size"
    /\ UNCHANGED <<pl_thread, pl_all_files, pl_total_files, pl_extracted_count, pl_rx_len,
                   pl_batch_size, pl_pending_len, pl_tracks_sent, pl_stamped, pl_albums,
                   pl_groups, pl_consumer>>

\* let queue_depth = rx.len(); let batch_size = calculate_batch_size(..)
PlAsmSize ==
    /\ pl_asm = "size"
    /\ pl_batch_size' = calculate_batch_size(pl_tracks_sent, pl_total_files, pl_rx_len)
    /\ pl_asm' = "collect"
    /\ UNCHANGED <<pl_lock, pl_thread, pl_all_files, pl_total_files, pl_extracted_count,
                   pl_rx_len, pl_pending_len, pl_tracks_sent, pl_stamped, pl_albums, pl_groups,
                   pl_consumer>>

\* after the collect loop: `if pending.is_empty() { break; }`
PlAfterCollect(n) == IF n = 0 THEN "stamp" ELSE "insert"

\* while pending.len() < batch_size { match rx.recv_timeout(100ms) .. }
PlAsmCollect ==
    /\ pl_asm = "collect"
    /\ IF pl_pending_len >= pl_batch_size
       THEN /\ pl_asm' = PlAfterCollect(pl_pending_len)
            /\ UNCHANGED <<pl_pending_len, pl_rx_len>>
       ELSE IF pl_rx_len > 0
            THEN /\ pl_pending_len' = pl_pending_len + 1
                 /\ pl_rx_len' = pl_rx_len - 1
                 /\ pl_asm' = "collect"
            ELSE /\ pl_asm' = "timeout"
                 /\ UNCHANGED <<pl_pending_len, pl_rx_len>>
    /\ UNCHANGED <<pl_lock, pl_thread, pl_all_files, pl_total_files, pl_extracted_count,
                   pl_batch_size, pl_tracks_sent, pl_stamped, pl_albums, pl_groups,
                   pl_consumer>>

\* the break taken on any Err, whatever the counter
PlAsmTimeout_always_breaks ==
    /\ pl_asm = "timeout"
    /\ pl_asm' = PlAfterCollect(pl_pending_len)
    /\ UNCHANGED <<pl_lock, pl_thread, pl_all_files, pl_total_files, pl_extracted_count,
                   pl_rx_len, pl_batch_size, pl_pending_len, pl_tracks_sent, pl_stamped,
                   pl_albums, pl_groups, pl_consumer>>

\* Err(_) => if extracted_count.load(Relaxed) >= total_files { break; }
PlAsmTimeout ==
    /\ pl_asm = "timeout"
    /\ pl_asm' = IF pl_extracted_count >= pl_total_files
                 THEN PlAfterCollect(pl_pending_len) ELSE "collect"
    /\ UNCHANGED <<pl_lock, pl_thread, pl_all_files, pl_total_files, pl_extracted_count,
                   pl_rx_len, pl_batch_size, pl_pending_len, pl_tracks_sent, pl_stamped,
                   pl_albums, pl_groups, pl_consumer>>

\* the transaction of one batch: insert_or_update_track returns a positive
\* id for the tracks that go to batch_tracks, (0, false) for a duplicate and
\* Err for a failed insert; commit; tracks_sent += batch_tracks.len();
\* pending.clear(); if tracks_sent >= total_files { break; }
PlAsmInsert ==
    /\ pl_asm = "insert"
    /\ \E skipped \in {0, 1, pl_pending_len} :
         /\ skipped <= pl_pending_len
         /\ pl_tracks_sent' = pl_tracks_sent + (pl_pending_len - skipped)
    /\ pl_pending_len' = 0
    /\ pl_asm' = IF pl_tracks_sent' >= pl_total_files THEN "stamp" ELSE "size"
    /\ UNCHANGED <<pl_lock, pl_thread, pl_all_files, pl_total_files, pl_extracted_count,
                   pl_rx_len, pl_batch_size, pl_stamped, pl_albums, pl_groups, pl_consumer>>

\* conn.transaction().unwrap() or tx_db.commit().unwrap() panics: the
\* closure unwinds, the guard and rx are dropped
PlAsmPanic ==
    /\ pl_asm = "insert"
    /\ pl_asm' = "panicked"
    /\ pl_lock' = "none"
    /\ UNCHANGED <<pl_thread, pl_all_files, pl_total_files, pl_extracted_count, pl_rx_len,
                   pl_batch_size, pl_pending_len, pl_tracks_sent, pl_stamped, pl_albums,
                   pl_groups, pl_consumer>>

\* for folder in &folders_clone { update_folder_last_scanned(..) }, then the
\* closure returns and drops the guard
PlAsmStamp ==
    /\ pl_asm = "stamp"
    /\ pl_stamped' = pl_stamped + 1
    /\ pl_lock' = "none"
    /\ pl_asm' = "returned"
    /\ UNCHANGED <<pl_thread, pl_all_files, pl_total_files, pl_extracted_count, pl_rx_len,
                   pl_batch_size, pl_pending_len, pl_tracks_sent, pl_albums, pl_groups,
                   pl_consumer>>

ScanAssembler ==
    PlAsmLock \/ PlAsmSize \/ PlAsmCollect \/ PlAsmTimeout \/ PlAsmInsert \/ PlAsmStamp

ScanNext ==
    \/ ((\E w \in Workers : ScanWorker(w)) /\ PoolUnchanged)
    \/ (ScanAssembler /\ PoolUnchanged)
    \/ (PlAsmPanic /\ PoolUnchanged)

\* the rescan under fair scheduling of its pool threads and its closure
ScanLiveSpec ==
    /\ ScanInit
    /\ [][ScanNext]_vars
    /\ WF_vars(ScanAssembler /\ PoolUnchanged)
    /\ \A w \in Workers : WF_vars(ScanWorker(w) /\ PoolUnchanged)

(***************************************************************************)
(* A merge started while the rescan runs: the analysis tasks of            *)
(* merge_duplicate_covers go to the same pool threads and take the same    *)
(* db.conn as the closure of the rescan                                    *)
(***************************************************************************)
ShareInit ==
    /\ MigIdle
    /\ CbIdle
    /\ RampIdle
    /\ EtaIdle
    /\ FillIdle
    /\ CallIdle
    /\ RescanIdle
    /\ MergeIdle
    /\ pl_lock = "none"
    /\ pl_thread = [w \in Workers |-> "idle"]
    /\ pl_total_files \in 1..MaxScanFiles
    /\ pl_all_files = pl_total_files
    /\ pl_extracted_count = 0
    /\ pl_rx_len = 0
    /\ pl_asm = "lock"
    /\ pl_batch_size = 0
    /\ pl_pending_len = 0
    /\ pl_tracks_sent = 0
    /\ pl_stamped = 0
    /\ pl_albums \in 1..MaxShareAlbums
    /\ pl_groups = 0
    /\ pl_consumer = "recv"

\* albums.par_iter().for_each: a pool thread takes an album
PlTakeAlbum(w) ==
    /\ FirstIdle(w)
    /\ pl_albums > 0
    /\ pl_albums' = pl_albums - 1
    /\ pl_thread' = [pl_thread EXCEPT ![w] = "lock"]
    /\ UNCHANGED <<pl_lock, pl_all_files, pl_total_files, pl_extracted_count, pl_rx_len,
                   pl_asm, pl_batch_size, pl_pending_len, pl_tracks_sent, pl_stamped,
                   pl_groups, pl_consumer>>

\* let conn = db_clone.conn.lock().unwrap(): the pool thread waits for the
\* mutex
PlMergeLock(w) ==
    /\ pl_thread[w] = "lock"
    /\ pl_lock = "none"
    /\ pl_lock' = "analysis"
    /\ pl_thread' = [pl_thread EXCEPT ![w] = "query"]
    /\ UNCHANGED <<pl_all_files, pl_total_files, pl_extracted_count, pl_rx_len, pl_asm,
                   pl_batch_size, pl_pending_len, pl_tracks_sent, pl_stamped, pl_albums,
                   pl_groups, pl_consumer>>

\* the query of the album's tracks, the guard dropped with its block; the
\* analysis finds duplicates to send or none
PlMergeQuery(w) ==
    /\ pl_thread[w] = "query"
    /\ pl_lock' = "none"
    /\ \E has_duplicates \in BOOLEAN :
         pl_thread' = [pl_thread EXCEPT ![w] = IF has_duplicates THEN "group" ELSE "idle"]
    /\ UNCHANGED <<pl_all_files, pl_total_files, pl_extracted_count, pl_rx_len, pl_asm,
                   pl_batch_size, pl_pending_len, pl_tracks_sent, pl_stamped, pl_albums,
                   pl_groups, pl_consumer>>

\* let _ = tx_for_spawn.send(AlbumCoverGroup {..})
PlMergeSend(w) ==
    /\ pl_thread[w] = "group"
    /\ IF pl_consumer # "done"
       THEN /\ pl_groups < MergeChanCap
            /\ pl_groups' = pl_groups + 1
       ELSE pl_groups' = pl_groups
    /\ pl_thread' = [pl_thread EXCEPT ![w] = "idle"]
    /\ UNCHANGED <<pl_lock, pl_all_files, pl_total_files, pl_extracted_count, pl_rx_len,
                   pl_asm, pl_batch_size, pl_pending_len, pl_tracks_sent, pl_stamped,
                   pl_albums, pl_consumer>>

ShareMergeWorker(w) == PlTakeAlbum(w) \/ PlMergeLock(w) \/ PlMergeQuery(w) \/ PlMergeSend(w)

\* the analysis thread has dropped its sender: no album is left and no pool
\* thread is in an analysis task
ShareAnalysisDone ==
    /\ pl_albums = 0
    /\ \A w \in Workers : pl_thread[w] \notin {"lock", "query", "group"}

\* for album_group in rx.iter(): the next group, or the end of the loop
PlConsumerRecv ==
    /\ pl_consumer = "recv"
    /\ IF pl_groups > 0
       THEN /\ pl_groups' = pl_groups - 1
            /\ pl_consumer' = "lock"
       ELSE /\ ShareAnalysisDone
            /\ pl_consumer' = "done"
            /\ pl_groups' = pl_groups
    /\ UNCHANGED <<pl_lock, pl_thread, pl_all_files, pl_total_files, pl_extracted_count,
                   pl_rx_len, pl_asm, pl_batch_size, pl_pending_len, pl_tracks_sent,
                   pl_stamped, pl_albums>>

\* let mut conn = db_conn.lock().unwrap() for the set's transaction
PlConsumerLock ==
    /\ pl_consumer = "lock"
    /\ pl_lock = "none"
    /\ pl_lock' = "consumer"
    /\ pl_consumer' = "tx"
    /\ UNCHANGED <<pl_thread, pl_all_files, pl_total_files, pl_extracted_count, pl_rx_len,
                   pl_asm, pl_batch_size, pl_pending_len, pl_tracks_sent, pl_stamped,
                   pl_albums, pl_groups>>

\* the updates and the commit of the set; the guard is dropped with the block
PlConsumerCommit ==
    /\ pl_consumer = "tx"
    /\ pl_lock' = "none"
    /\ pl_consumer' = "recv"
    /\ UNCHANGED <<pl_thread, pl_all_files, pl_total_files, pl_extracted_count, pl_rx_len,
                   pl_asm, pl_batch_size, pl_pending_len, pl_tracks_sent, pl_stamped,
                   pl_albums, pl_groups>>

ShareConsumer == PlConsumerRecv \/ PlConsumerLock \/ PlConsumerCommit

ShareNext ==
    \/ ((\E w \in Workers : ScanWorker(w)) /\ PoolUnchanged)
    \/ (ScanAssembler /\ PoolUnchanged)
    \/ ((\E w \in Workers : ShareMergeWorker(w)) /\ PoolUnchanged)
    \/ (ShareConsumer /\ PoolUnchanged)

\* both commands under fair scheduling of every pool thread and of the two
\* closures, with a store engine that does not fail
ShareLiveSpec ==
    /\ ShareInit
    /\ [][ShareNext]_vars
    /\ WF_vars(ScanAssembler /\ PoolUnchanged)
    /\ WF_vars(ShareConsumer /\ PoolUnchanged)
    /\ \A w \in Workers : WF_vars((ScanWorker(w) \/ ShareMergeWorker(w)) /\ PoolUnchanged)

(***************************************************************************)
(* commands/covers.rs: sync_cover_paths_from_files and                     *)
(* batch_update_paths_with_progress over the (path, id) pairs of the two   *)
(* cover directories; a pair is modelled by its id                         *)
(***************************************************************************)
\* the ids of n cover files: file k is named after row k, but the file at
\* `stray` after no row (id 0) and the file at `twin` after row 1 again
\* (two files of one id differ in their extension)
SyncFiles(n, stray, twin) ==
    [k \in 1..n |-> IF k = stray THEN 0 ELSE IF k = twin THEN 1 ELSE k]

SyncLengths == {0, 1, BATCH_SIZE, BATCH_SIZE + 1, MaxSyncChunks * BATCH_SIZE}

SyncInputs ==
    {SyncFiles(n, stray, twin) : n \in SyncLengths, stray \in {0, 1, BATCH_SIZE + 1},
                                 twin \in {0, 2}}

\* the rows of a table: every positive id has its row
SyncHasRow(id) == id > 0

SyncInit ==
    /\ MigIdle
    /\ CbIdle
    /\ RampIdle
    /\ EtaIdle
    /\ FillIdle
    /\ PoolIdle
    /\ RescanIdle
    /\ MergeIdle
    /\ call_pc = "tracks"
    /\ call_args \in [tracks : SyncInputs,
                      albums : {SyncFiles(n, 0, twin) : n \in {0, 1, BATCH_SIZE + 1},
                                                        twin \in {0, 2}}]
    /\ call_result = [processed |-> 0, tracks_synced |-> 0, albums_synced |-> 0,
                      synced |-> 0, handled |-> 0, begins |-> 0, commits |-> 0,
                      events |-> <<>>, errors |-> 0, updated |-> {}, ret |-> <<>>]

SyncTotalItems == Len(call_args.tracks) + Len(call_args.albums)

SyncNextCall(table) == IF table = "tracks" THEN "albums" ELSE "return"

\* every executed UPDATE counted, whatever the number of rows it changed
ExecuteChunk_counts_unmatched(table, chunk, failed) ==
    LET executed == {k \in 1..Len(chunk) : k \notin failed}
    IN [synced |-> Cardinality(executed),
        errors |-> Cardinality({k \in 1..Len(chunk) : k \in failed}),
        updated |-> {<<table, chunk[k]>> : k \in {j \in executed : SyncHasRow(chunk[j])}}]

\* for (path_str, id) in chunk: UPDATE {table} SET {column} = ?1 WHERE id = ?2;
\* Ok(updated) counts when updated > 0, Err is pushed to errors; `failed`
\* are the positions of the chunk whose UPDATE returns Err
ExecuteChunk(table, chunk, failed) ==
    LET executed == {k \in 1..Len(chunk) : k \notin failed}
        changed == {k \in executed : SyncHasRow(chunk[k])}
    IN [synced |-> Cardinality(changed),
        errors |-> Cardinality({k \in 1..Len(chunk) : k \in failed}),
        updated |-> {<<table, chunk[k]>> : k \in changed}]

\* if updates.is_empty() { return Ok(0); }
SyncEmpty(table) ==
    /\ call_pc = table
    /\ call_args[table] = <<>>
    /\ call_result' = [call_result EXCEPT ![table \o "_synced"] = 0]
    /\ call_pc' = SyncNextCall(table)
    /\ UNCHANGED call_args

\* one turn of `for (batch_idx, chunk) in updates.chunks(BATCH_SIZE)`: lock,
\* transaction, the UPDATEs, commit, emit; `?` returns Err when the commit
\* fails; after the last chunk Ok(synced) is assigned to the caller's counter
SyncChunk(table) ==
    /\ call_pc = table
    /\ call_args[table] # <<>>
    /\ LET updates == call_args[table]
           first == call_result.handled + 1
           last == Min(call_result.handled + BATCH_SIZE, Len(updates))
           chunk == SubSeq(updates, first, last)
       IN \E failed \in {{}, {1}} : \E commit_ok \in BOOLEAN :
            LET done == ExecuteChunk(table, chunk, failed)
                synced == call_result.synced + done.synced
                processed == call_result.processed + done.synced
                counted == [call_result EXCEPT
                              !.processed = processed,
                              !.begins = @ + 1,
                              !.errors = @ + done.errors,
                              ![table \o "_synced"] = IF done.synced > 0 THEN synced ELSE @]
            IN IF commit_ok
               THEN /\ call_result' =
                         [counted EXCEPT
                            !.commits = @ + 1,
                            !.updated = @ \cup done.updated,
                            !.events = Append(@,
                                [current |-> processed, total |-> SyncTotalItems,
                                 current_batch |-> (first - 1) \div BATCH_SIZE + 1,
                                 batch_size |-> Len(chunk),
                                 tracks_migrated |-> counted.tracks_synced,
                                 albums_migrated |-> counted.albums_synced]),
                            !.synced = IF last = Len(updates) THEN 0 ELSE synced,
                            !.handled = IF last = Len(updates) THEN 0 ELSE last,
                            ![table \o "_synced"] = IF last = Len(updates)
                                                    THEN synced
                                                    ELSE counted[table \o "_synced"]]
                    /\ call_pc' = IF last = Len(updates) THEN SyncNextCall(table) ELSE table
               ELSE /\ call_result' = [counted EXCEPT !.ret = <<"Err">>]
                    /\ call_pc' = "failed"
    /\ UNCHANGED call_args

\* Ok(MigrationProgress { total, processed: tracks_synced + albums_synced, .. })
SyncReturn ==
    /\ call_pc = "return"
    /\ call_result' = [call_result EXCEPT
                         !.ret = <<"Ok", [total |-> call_result.tracks_synced
                                                      + call_result.albums_synced,
                                          processed |-> call_result.tracks_synced
                                                          + call_result.albums_synced,
                                          tracks_migrated |-> call_result.tracks_synced,
                                          albums_migrated |-> call_result.albums_synced]>>]
    /\ call_pc' = "done"
    /\ UNCHANGED call_args

SyncUnchanged == UNCHANGED <<cbVars, rampVars, etaVars, fillVars, poolVars, rescanVars,
                             mergeVars, migVars>>

SyncNext ==
    \/ (\E table \in {"tracks", "albums"} : SyncEmpty(table) /\ SyncUnchanged)
    \/ (\E table \in {"tracks", "albums"} : SyncChunk(table) /\ SyncUnchanged)
    \/ (SyncReturn /\ SyncUnchanged)

SyncSpec == SyncInit /\ [][SyncNext]_vars

(***************************************************************************)
(* scanner/cover_storage.rs: ImageFormat::from_bytes, extension,           *)
(* save_track_cover and save_album_art, called on bounded byte strings     *)
(***************************************************************************)
\* data.starts_with(prefix)
StartsWith(data, prefix) ==
    Len(data) >= Len(prefix) /\ SubSeq(data, 1, Len(prefix)) = prefix

\* b"RIFF", b"WEBP"
RIFF == <<82, 73, 70, 70>>
WEBP == <<87, 69, 66, 80>>

\* the length test left out: three bytes are enough for a JPEG
from_bytes_unguarded(data) ==
    IF StartsWith(data, <<255, 216, 255>>) THEN "Jpeg"
    ELSE IF StartsWith(data, <<137, 80, 78, 71>>) THEN "Png"
    ELSE IF Len(data) >= 12 /\ StartsWith(data, RIFF) /\ SubSeq(data, 9, 12) = WEBP
         THEN "Webp"
         ELSE "None"

\* ImageFormat::from_bytes
from_bytes(data) ==
    IF Len(data) < 4 THEN "None"
    ELSE IF StartsWith(data, <<255, 216, 255>>) THEN "Jpeg"
    ELSE IF StartsWith(data, <<137, 80, 78, 71>>) THEN "Png"
    ELSE IF Len(data) >= 12 /\ StartsWith(data, RIFF) /\ SubSeq(data, 9, 12) = WEBP
         THEN "Webp"
         ELSE "None"

\* ImageFormat::extension
extension(format) ==
    IF format = "Jpeg" THEN "jpg" ELSE IF format = "Png" THEN "png" ELSE "webp"

\* tracks_dir.join(format!("{}.{}", track_id, ext)), and the same in albums_dir
CoverPath(kind, id, ext) ==
    [dir |-> IF kind = "track" THEN "tracks" ELSE "albums", stem |-> Digits(id), ext |-> ext]

\* the first four bytes tried: the three signatures, each with one byte
\* changed, and zeros
SniffHeads ==
    {<<255, 216, 255, 224>>, <<255, 216, 0, 224>>, <<137, 80, 78, 71>>, <<137, 80, 78, 0>>,
     RIFF, <<82, 73, 70, 88>>, <<0, 0, 0, 0>>}

\* bytes 8..12 tried
SniffTails == {WEBP, <<87, 65, 86, 69>>}

RECURSIVE Zeros(_)
Zeros(n) == IF n = 0 THEN <<>> ELSE <<0>> \o Zeros(n - 1)

SniffInputs ==
    {SubSeq(head \o Zeros(4) \o tail \o Zeros(MaxSniffLen), 1, n) :
        head \in SniffHeads, tail \in SniffTails, n \in 0..MaxSniffLen}

SniffInit ==
    /\ MigIdle
    /\ CbIdle
    /\ RampIdle
    /\ EtaIdle
    /\ FillIdle
    /\ PoolIdle
    /\ RescanIdle
    /\ MergeIdle
    /\ call_pc = "input"
    /\ call_args \in [kind : {"track", "album"}, id : {7, 12}, data : SniffInputs]
    /\ call_result = <<>>

\* save_track_cover / save_album_art: the format is detected, the file is
\* named and written; fs::write can fail
SaveCover ==
    /\ call_pc = "input"
    /\ LET format == from_bytes(call_args.data)
           path == CoverPath(call_args.kind, call_args.id, extension(format))
       IN IF format = "None"
          THEN call_result' = [format |-> format, ret |-> <<"Err">>, written |-> {}]
          ELSE \E write_ok \in BOOLEAN :
                 call_result' = IF write_ok
                                THEN [format |-> format, ret |-> <<"Ok", path>>,
                                      written |-> {path}]
                                ELSE [format |-> format, ret |-> <<"Err">>, written |-> {}]
    /\ call_pc' = "done"
    /\ UNCHANGED <<call_args, cbVars, rampVars, etaVars, fillVars, poolVars, rescanVars, mergeVars,
                   migVars>>

SniffNext == SaveCover

SniffSpec == SniffInit /\ [][SniffNext]_vars

(***************************************************************************)
(* scanner/walker.rs: scan_directory over one directory entry whose file   *)
(* name is a bounded string                                                *)
(***************************************************************************)
SUPPORTED_EXTENSIONS ==
    {<<"f", "l", "a", "c">>, <<"m", "p", "3">>, <<"w", "a", "v">>, <<"o", "g", "g">>,
     <<"m", "4", "a">>, <<"a", "a", "c">>}

\* str::to_lowercase on the characters of the model
LowerChar(c) ==
    CASE c = "F" -> "f" [] c = "L" -> "l" [] c = "A" -> "a" [] c = "C" -> "c"
      [] c = "M" -> "m" [] c = "P" -> "p" [] c = "W" -> "w" [] c = "V" -> "v"
      [] c = "O" -> "o" [] c = "G" -> "g" [] OTHER -> c

to_lowercase(str) == [i \in 1..Len(str) |-> LowerChar(str[i])]

NoExtension == <<"None">>

\* Path::extension of a file name: the part after the last dot, unless the
\* name has no dot or only the one it starts with
PathExtension(name) ==
    LET dots == {i \in 1..Len(name) : name[i] = "."}
    IN IF dots = {} THEN NoExtension
       ELSE LET last == CHOOSE i \in dots : \A j \in dots : j <= i
            IN IF last = 1 THEN NoExtension
               ELSE <<"Some", SubSeq(name, last + 1, Len(name))>>

\* the extension compared as it is written
is_supported_audio_file_exact(entry) ==
    LET ext == PathExtension(entry.name)
    IN /\ ext # NoExtension
       /\ entry.utf8 # "ext"
       /\ ext[2] \in SUPPORTED_EXTENSIONS

\* is_supported_audio_file: no extension, or one that is not Unicode, is
\* unsupported
is_supported_audio_file(entry) ==
    LET ext == PathExtension(entry.name)
    IN /\ ext # NoExtension
       /\ entry.utf8 # "ext"
       /\ to_lowercase(ext[2]) \in SUPPORTED_EXTENSIONS

\* extensions tried: the supported ones in lower, upper and mixed case,
\* and unsupported ones
WalkExtensions ==
    SUPPORTED_EXTENSIONS
      \cup {<<"F", "L", "A", "C">>, <<"M", "P", "3">>, <<"W", "A", "V">>, <<"O", "G", "G">>,
            <<"M", "4", "A">>, <<"A", "A", "C">>, <<"M", "p", "3">>, <<"f", "l", "A", "c">>}
      \cup {<<"m", "p", "4">>, <<"t", "x", "t">>, <<"m", "p">>, <<"m", "p", "3", "x">>, <<>>}

RECURSIVE DottedStem(_)
DottedStem(k) == IF k = 0 THEN <<"s">> ELSE DottedStem(k - 1) \o <<".", "t">>

WalkStems == {<<>>} \cup {DottedStem(k) : k \in 0..MaxStemDots}

WalkNames ==
    {stem \o ext : stem \in WalkStems, ext \in WalkExtensions}
      \cup {stem \o <<".">> \o ext : stem \in WalkStems, ext \in WalkExtensions}

\* a directory entry: its file name, where the name is not Unicode if
\* anywhere, and whether it is a file
WalkInit ==
    /\ MigIdle
    /\ CbIdle
    /\ RampIdle
    /\ EtaIdle
    /\ FillIdle
    /\ PoolIdle
    /\ RescanIdle
    /\ MergeIdle
    /\ call_pc = "input"
    /\ call_args \in [name : WalkNames \ {<<>>}, utf8 : {"valid", "stem", "ext"},
                      is_file : BOOLEAN]
    /\ call_args.utf8 = "ext" =>
          /\ PathExtension(call_args.name) # NoExtension
          /\ PathExtension(call_args.name)[2] # <<>>
    /\ call_result = <<>>

\* scan_directory, the body of the loop for one entry
ScanDirectory ==
    /\ call_pc = "input"
    /\ LET entry == call_args
           supported == entry.is_file /\ is_supported_audio_file(entry)
       IN call_result' =
            [total_scanned |-> IF entry.is_file THEN 1 ELSE 0,
             audio_files |-> IF supported /\ entry.utf8 = "valid"
                             THEN <<entry.name>> ELSE <<>>,
             errors |-> IF supported /\ entry.utf8 # "valid"
                        THEN <<entry.name>> ELSE <<>>]
    /\ call_pc' = "done"
    /\ UNCHANGED <<call_args, cbVars, rampVars, etaVars, fillVars, poolVars, rescanVars, mergeVars,
                   migVars>>

WalkNext == ScanDirectory

WalkSpec == WalkInit /\ [][WalkNext]_vars

(***************************************************************************)
(* Properties of calculate_batch_size                                      *)
(***************************************************************************)
\* C9: for every items_processed, total and queue depth the batch size
\* returned by calculate_batch_size lies in [20, 200].
C9_BatchSizeBounds == cb_pc = "done" => cb_result \in 20..200

\* the ceiling is hit with a queue far deeper than the total
C9_Witness ==
    /\ cb_pc = "done"
    /\ cb_queue_depth > 3 * 150
    /\ cb_queue_depth > cb_total_items
    /\ cb_result = 200

\* floor(num * base / den) clamped to [20, 200], in exact arithmetic
ScaledExact(base, num, den) == clamp((num * base) \div den, 20, 200)

\* C10, as stated: for items_processed >= 1 the target is floor(1.5 * base)
\* clamped when d > 3 * base, floor(0.8 * base) clamped when 2 * d < base,
\* and base otherwise.
C10_QueueDepthScaling ==
    (cb_pc = "done" /\ cb_items_processed >= 1)
        => LET base == base_size(cb_items_processed)
               d == cb_queue_depth
           IN cb_result = IF d > 3 * base THEN ScaledExact(base, 3, 2)
                          ELSE IF 2 * d < base THEN ScaledExact(base, 4, 5)
                          ELSE base

\* C10, amended: the scale-down applies when d < floor(base / 2), the
\* integer half of base; for odd base and d = (base - 1) / 2 the target is
\* base.
C10_QueueDepthScalingIntegerHalf ==
    (cb_pc = "done" /\ cb_items_processed >= 1)
        => LET base == base_size(cb_items_processed)
               d == cb_queue_depth
           IN cb_result = IF d > 3 * base THEN ScaledExact(base, 3, 2)
                          ELSE IF d < base \div 2 THEN ScaledExact(base, 4, 5)
                          ELSE base

\* an odd base with 2 * d < base and d = floor(base / 2): no scale-down
C10_Witness ==
    /\ cb_pc = "done"
    /\ cb_items_processed >= 1
    /\ LET base == base_size(cb_items_processed) IN
         /\ base % 2 = 1
         /\ 2 * cb_queue_depth < base
         /\ cb_queue_depth = base \div 2
         /\ cb_result = base
         /\ ScaledExact(base, 4, 5) # base

\* C11: the base batch size is a monotonic ramp. The first batch
\* (items_processed = 0) gets the smallest target, 20; for a <= b the size at
\* a is at most the size at b, so nothing drops at the boundaries 500 and
\* 2000; the ramp never exceeds 150.
C11_BaseRampMonotonic ==
    ramp_pc = "done"
        => /\ ramp_a <= ramp_b
           /\ 20 <= ramp_size_a
           /\ ramp_size_a <= ramp_size_b
           /\ ramp_size_b <= 150
           /\ ramp_a = 0 => ramp_size_a = 20
           /\ ramp_a >= 1 => ramp_size_a = base_size(ramp_a)
           /\ ramp_b >= 1 => ramp_size_b = base_size(ramp_b)

\* the two calls straddle the 500 boundary (499 and 500) and the later one
\* is a step up; the ceiling 150 is reached from 12000 items on
C11_Witness ==
    /\ ramp_pc = "done"
    /\ ramp_a = 499
    /\ ramp_b = 500
    /\ ramp_size_a = 49
    /\ ramp_size_b = 50
    /\ base_size(1999) = 99
    /\ base_size(2000) = 100
    /\ base_size(12000) = 150

(***************************************************************************)
(* Properties of migrate_covers_to_files                                   *)
(***************************************************************************)
Range(seq) == {seq[k] : k \in 1..Len(seq)}

Last(seq) == seq[Len(seq)]

\* rows of the current invocation whose path the store shows as migrated
MigratedRows == {it \in Eligible(db0) : db[it].path = NewPath(it)}

\* C1: a run over N >= 1 enumerated items always terminates and returns a
\* summary, also when items fail transform.
C1_RunTerminates == (m_pc = "running") ~> (m_pc = "returned")

\* C2: no transformed result is lost: when the assembler declares completion
\* the channel holds no result and no worker is still about to send one.
C2_NoResultLost ==
    a_pc = "exit" => (chan = <<>> /\ \A w \in Workers : w_pc[w] # "send")

\* C3: the assembler finishes only when successes plus recorded failures
\* equal the enumerated total.
C3_FinishedAccountsForAll ==
    a_pc = "exit" => tracks_migrated + albums_migrated + Len(errors) = total_items

\* C4: a batch of N results in which exactly one row update failed still
\* commits: the failing update leaves the transaction open and the loop
\* running, the other N-1 rows show their path after the commit, the success
\* counters grew by N-1 over the batch, exactly one error names a result of
\* the batch, and the run goes on.
C4_PartialFailureIsolation ==
    [][ /\ (a_pc = "update" /\ Len(errors') > Len(errors))
           => /\ tx_state' = "open"
              /\ txw' = txw
              /\ a_pc' \in {"update", "commit"}
              /\ m_pc' = "running"
        /\ (/\ a_pc = "commit"
            /\ a_pc' \in {"size", "exit"}
            /\ Len(batch_items) = Len(pending) - 1)
           => /\ \A it \in Range(batch_items) : db'[it].path = NewPath(it)
              /\ Cardinality(Range(batch_items)) = Len(pending) - 1
              /\ tracks_migrated + albums_migrated = items_sent + Len(pending) - 1
              /\ items_sent' = items_sent + Len(pending) - 1
              /\ Cardinality({k \in 1..Len(errors) : errors[k] \in Range(pending)}) = 1
              /\ m_pc' = "running"
      ]_vars

\* a batch of at least two results was committed with exactly one failure
C4_Witness ==
    \E k \in 1..Len(events) :
        /\ events[k].type = "batch"
        /\ events[k].batch_size >= 2
        /\ Len(events[k].items) = events[k].batch_size - 1
        /\ \A it \in Range(events[k].items) : db[it].path = NewPath(it)

\* C5: when the engine fails to begin or to commit a batch, the batch is
\* discarded and reported as an error, the run continues with the next
\* batch, and the rows of the batch keep a null path.
C5_EngineFailureContinues ==
    [][ (tx_state' \in {"begin_failed", "commit_failed"} /\ tx_state' # tx_state)
           => /\ a_pc' = "size"
              /\ pending' = <<>>
              /\ Len(errors') > Len(errors)
              /\ db' = db
      ]_vars

\* C6: the store changes only by the commit of a whole batch (every result
\* of the batch has been through its update, and all successful updates are
\* applied together); a crash changes no row; every row of the run is
\* either untouched (blob kept, path null) or migrated; and an enumeration
\* takes exactly the rows with a blob and a null path.
C6_BatchAtomic ==
    [][ /\ (db' # db)
           => /\ a_pc = "commit"
              /\ tx_state = "open"
              /\ idx = Len(pending) + 1
              /\ [k \in 1..Len(txw) |-> txw[k][1]] = batch_items
              /\ db' = [it \in Items |->
                           IF it \in Range(batch_items)
                           THEN [db[it] EXCEPT !.path = NewPath(it)] ELSE db[it]]
        /\ (m_pc = "running" /\ m_pc' = "idle") => db' = db
        /\ \A it \in Items : db'[it] = db0'[it]
                               \/ (/\ it \in Eligible(db0')
                                   /\ db'[it] = [db0'[it] EXCEPT !.path = NewPath(it)])
        /\ (m_pc # "running" /\ m_pc' = "running")
           => {wi.item : wi \in todo'} = {it \in Items : db[it].blob # "null" /\ db[it].path = NullPath}
      ]_vars

\* a crash after at least one committed batch, with rows still to migrate
C6_Witness ==
    /\ results # <<>>
    /\ Last(results).kind = "crash"
    /\ m_pc = "idle"
    /\ MigratedRows # {}
    /\ Eligible(db) # {}

C8_ProcessesExactlyEligible ==
    (m_pc = "returned" /\ results # <<>>)
        => /\ Last(results).total = Cardinality(Eligible(db0))
           /\ Last(results).errors = <<>> => Last(results).processed = Last(results).total
           /\ \A it \in Items : db0[it].path # NullPath => db[it] = db0[it]

\* results produced and not yet received: in the channel or held by a
\* worker inside tx.send
Sending == {w \in Workers : w_pc[w] = "send"}

InFlight == Len(chan) + Cardinality(Sending)

\* C12: backpressure. The channel never holds more than its capacity; a
\* worker completes a send to the live assembler only when the channel has
\* room and otherwise stays in the send; a receive is the only step that
\* takes results out of the channel; the results in flight never exceed
\* capacity + pool size, plus the assembler's pending batch.
C12_Backpressure ==
    /\ [](/\ Len(chan) <= ChanCap
          /\ Cardinality(Sending) <= PoolSize
          /\ InFlight <= ChanCap + PoolSize
          /\ a_pc \in {"size", "collect", "timeout"} => Len(pending) <= batch_size)
    /\ [][\A w \in Workers :
            (w_pc[w] = "send" /\ w_pc'[w] # "send" /\ RxAlive /\ m_pc' = "running")
                => /\ Len(chan) < ChanCap
                   /\ chan' = Append(chan, w_item[w])]_vars
    /\ [][(Len(chan') < Len(chan) /\ m_pc' = "running")
                => /\ a_pc = "collect"
                   /\ pending' = Append(pending, chan[1])
                   /\ chan' = Tail(chan)]_vars

\* the channel is full, a worker is blocked in the send with its result and
\* the assembler has not yet received
C12_Witness ==
    /\ m_pc = "running"
    /\ RxAlive
    /\ Len(chan) = ChanCap
    /\ \E w \in Workers : w_pc[w] = "send" /\ ~ENABLED WorkerSend(w)
    /\ InFlight = ChanCap + 1

\* the progress snapshots among the emissions of the run, in emission order
SnapshotIndexes == {k \in 1..Len(events) : events[k].type = "batch"}

\* C13, as stated: of two consecutive snapshots the later has a strictly
\* larger `current`, also when every row update of its batch failed.
C13_SnapshotsStrictlyIncreasing ==
    \A k \in SnapshotIndexes :
        (k + 1) \in SnapshotIndexes => events[k + 1].current > events[k].current

\* C13, amended: `current` never decreases. Each snapshot advances it by
\* the number of rows its batch updated, so it is strictly larger exactly
\* when at least one row update of the batch succeeded and equal when every
\* row update of the batch failed.
C13_SnapshotsNonDecreasing ==
    /\ 1 \in SnapshotIndexes => events[1].current = Len(events[1].items)
    /\ \A k \in SnapshotIndexes :
        (k + 1) \in SnapshotIndexes
            => /\ events[k + 1].current >= events[k].current
               /\ events[k + 1].current = events[k].current + Len(events[k + 1].items)
               /\ events[k + 1].current_batch = events[k].current_batch + 1

\* a second snapshot whose batch held a result and updated no row: its
\* `current` equals that of the snapshot before it
C13_Witness ==
    \E k \in SnapshotIndexes :
        /\ (k + 1) \in SnapshotIndexes
        /\ events[k + 1].batch_size >= 1
        /\ events[k + 1].items = <<>>
        /\ events[k + 1].current = events[k].current
        /\ events[k].current >= 1

\* C14: for every run, a run that enumerates zero items included, the
\* emissions are zero or more progress snapshots followed by exactly one
\* terminal summary, and no snapshot follows the terminal summary.
C14_SnapshotsThenOneSummary ==
    /\ \A k \in 1..Len(events) : events[k].type = "complete" => k = Len(events)
    /\ m_pc = "returned"
          => /\ Len(events) >= 1
             /\ Last(events).type = "complete"
             /\ \A k \in 1..(Len(events) - 1) : events[k].type = "batch"

\* C15: every enumerated item that failed transform, validation or the
\* file write is recorded in the error list of the run, as is every failed
\* row update: at any moment of a run each enumerated item is still waiting
\* or in flight, or has succeeded, or is listed in the errors.
C15_EveryFailureListed ==
    (m_pc = "running" /\ a_pc # "panicked")
        => \A it \in Eligible(db0) :
              \/ \E wi \in todo : wi.item = it
              \/ \E w \in Workers : w_item[w] = it
              \/ it \in Range(chan)
              \/ it \in Range(pending)
              \/ db[it].path = NewPath(it)
              \/ it \in Range(errors)

\* C16: the command returns an outright failure only when its enumeration
\* failed; once the enumeration has succeeded every outcome, a failed
\* transaction begin or commit included, is returned as a summary whose
\* error list holds the transaction error.
C16_FailureOnlyFromEnumerator ==
    /\ \A k \in 1..Len(results) :
          results[k].kind \notin {"ok", "crash"} => results[k].kind = "enumerate"
    /\ (tx_state \in {"begin_failed", "commit_failed"} /\ m_pc \in {"returned", "failed"})
          => /\ Last(results).kind = "ok"
             /\ Last(results).errors # <<>>

\* C17: when the store read of the enumeration fails the run aborts
\* before any worker is spawned: no channel is created, no file is written,
\* no row is changed and no event is emitted.
C17_EnumeratorFailureChangesNothing ==
    /\ [](rs_pc = "failed" => (rs_tracks = rs_tracks0 /\ rs_deleted = 0))
    /\ [][(Len(results') = Len(results) + 1 /\ Last(results').kind = "enumerate")
            => /\ UNCHANGED <<db, files, tx_state, txw, workerVars, a_pc>>
               /\ events' = <<>>]_vars

\* a step that emits: one more entry in the emission log
EmitStep == Len(events') = Len(events) + 1

\* C18: emission failures are swallowed. Whatever the outcome of an
\* emission, the step that makes it has the same effect on everything but
\* the emission log: the batch is committed, the counters advance, the
\* closure goes on to the next batch or returns, and the command returns the
\* summary of the counters. A run with failed emissions therefore commits
\* the same batches, leaves the same store and returns the same summary.
C18_EmissionFailureSwallowed ==
    [][EmitStep =>
         /\ UNCHANGED <<files, workerVars>> \/ Last(events').type = "complete"
         /\ Last(events').type = "batch"
              => /\ db' = ApplyWrites(db, txw)
                 /\ tx_state' = "none"
                 /\ items_sent' = items_sent + Len(batch_items)
                 /\ batches_sent' = batches_sent + 1
                 /\ pending' = <<>>
                 /\ a_pc' = IF items_sent' >= total_items THEN "exit" ELSE "size"
                 /\ UNCHANGED <<cmdVars, tracks_migrated, albums_migrated, errors>>
         /\ Last(events').type = "complete"
              => /\ m_pc' = "returned"
                 /\ results' = Append(results, OkResult(total_items, tracks_migrated,
                                                        albums_migrated, errors))
                 /\ UNCHANGED <<storeVars, tracks_migrated, albums_migrated, errors>>]_vars

\* a returned run none of whose emissions reached the window: its batch
\* is committed and its summary counts the migrated row
C18_Witness ==
    /\ m_pc = "returned"
    /\ Len(events) >= 2
    /\ \A k \in 1..Len(events) : ~events[k].delivered
    /\ MigratedRows # {}
    /\ Last(results).kind = "ok"
    /\ Last(results).processed = Cardinality(MigratedRows)

\* the assembler between its first sizing and its last commit
AsmActive == a_pc \in {"size", "collect", "timeout", "begin", "update", "commit"}

C20_WorkersNeverTouchStore ==
    /\ conn_owner # "analysis"
    /\ \A w \in Workers : mg_w_tracks[w] = {}

(***************************************************************************)
(* Properties of merge_duplicate_covers                                    *)
(***************************************************************************)
\* C21: a file leaves the disk only in the deletion loop of a duplicate
\* set, with no transaction open, and the loop is entered with files to
\* delete only by the step in which the set's transaction committed; a
\* failed begin or a failed commit empties the set's deletion list and
\* leaves every file and every row as it was.
C21_DeleteOnlyAfterCommit ==
    /\ [][mg_files' # mg_files =>
            /\ mc_pc = "delete"
            /\ (mg_files \ mg_files') \subseteq files_to_delete
            /\ mg_files' \subseteq mg_files
            /\ mc_txw = {}
            /\ conn_owner # "consumer"]_vars
    /\ [][(mc_pc # "delete" /\ mc_pc' = "delete" /\ files_to_delete' # {}) =>
            /\ mc_pc = "commit"
            /\ mg_errors' = mg_errors
            /\ \A u \in mc_txw : mg_cover'[u[1]] = u[2]]_vars
    /\ [][(mc_pc \in {"begin", "commit"} /\ mg_errors' # mg_errors) =>
            /\ files_to_delete' = {}
            /\ mc_pc' = "group"
            /\ UNCHANGED <<mg_files, mg_cover>>]_vars

\* a duplicate file has been removed after its set's commit
C21_Witness ==
    /\ covers_merged >= 1
    /\ mg_errors = <<>>
    /\ \E t \in MergeTracks : mg_cover[t] \notin {t, NoCover} /\ t \notin mg_files

\* C22: whenever the merge deletes a file, no row of the store references
\* its path any more.
C22_NoDanglingReference ==
    [][\A p \in mg_files \ mg_files' : \A t \in MergeTracks : mg_cover[t] # p]_vars

\* the tracks of an album whose first cover file has a given content: their
\* files are a set of byte-identical files at different paths
DupSet(album, bytes) ==
    {t \in TracksOf(album) : mg_cover[t] \notin {NoCover, NoRow} /\ mg_bytes[t] = bytes}

DupSets == {DupSet(album, bytes) : album \in MergeAlbums, bytes \in Contents} \ {{}}

\* the lexicographically smallest path of a set
Least(S) == CHOOSE p \in S : \A q \in S : ~PathLess(q, p)

C24_DeletionErrorsTolerated ==
    /\ [][(mc_pc = "delete" /\ files_to_delete' # files_to_delete) =>
            LET p == CHOOSE x \in files_to_delete : x \notin files_to_delete' IN
            /\ files_to_delete' = files_to_delete \ {p}
            /\ mc_pc' = "delete"
            /\ UNCHANGED <<mg_pc, mc_buckets, mc_group, mg_chan, mg_cover>>
            /\ p \notin mg_files =>
                  UNCHANGED <<mg_errors, covers_merged, space_saved_bytes, mg_files>>
            /\ (p \in mg_files /\ p \in mg_files') =>
                  /\ mg_errors' = Append(mg_errors, <<"delete", p>>)
                  /\ UNCHANGED <<covers_merged, space_saved_bytes, mg_files>>
            /\ (p \in mg_files /\ p \notin mg_files') =>
                  /\ mg_errors' = mg_errors
                  /\ covers_merged' = covers_merged + 1]_vars
    /\ [](mg_pc = "returned" =>
            /\ Last(mg_results).kind = "ok"
            /\ Last(mg_results).errors = mg_errors
            /\ mc_buckets = {} /\ files_to_delete = {} /\ mg_chan = <<>>)
    /\ [](mg_pc = "failed" => Last(mg_results).kind = "enumerate" /\ mg_errors = <<>>)

\* a run has returned without an error and without a failure although the
\* file it set out to delete was gone: a track had been deleted meanwhile
C24_Witness ==
    /\ mg_pc = "returned"
    /\ Last(mg_results).errors = <<>>
    /\ Last(mg_results).covers_merged = 0
    /\ mg_faults = MaxMergeFaults - 1
    /\ lib_removed >= 1
    /\ \E i \in 1..Len(mg_events) : mg_events[i].type = "batch"

\* the sum of f over the finite set S
RECURSIVE SumFn(_, _)
SumFn(f, S) ==
    IF S = {} THEN 0
    ELSE LET x == CHOOSE y \in S : TRUE IN f[x] + SumFn(f, S \ {x})

\* the cover files the library started with, and those gone since
InitialFiles == {t \in MergeTracks : mg_cover[t] \notin {NoCover, NoRow}}

RemovedFiles == InitialFiles \ mg_files

\* the counters of the runs that have returned and of the run under way
MergedSoFar ==
    SumFn([i \in 1..Len(mg_results) |-> mg_results[i].covers_merged], 1..Len(mg_results))
        + (IF mg_pc = "running" THEN covers_merged ELSE 0)

SavedSoFar ==
    SumFn([i \in 1..Len(mg_results) |-> mg_results[i].space_saved_bytes],
          1..Len(mg_results))
        + (IF mg_pc = "running" THEN space_saved_bytes ELSE 0)

GroupsInFlight ==
    Range(mg_chan) \cup {mg_w_group[w] : w \in {v \in Workers : mg_w_pc[v] = "send"}}
                   \cup (IF mc_group = NoGroup THEN {} ELSE {mc_group})

PathsOf(rows) == {r[2] : r \in rows}

\* C26: every group on its way to the consumer has a hash bucket of two or
\* more files; every file in one of its buckets shares its size bucket
\* with another file of the album, as does every file a worker is about to
\* hash; the files of one bucket have equal content; and the consumer
\* works only on buckets of two or more and repoints a row only to a file
\* of equal content.
C26_OnlyDuplicatesSent ==
    /\ \A g \in GroupsInFlight :
          /\ \E b \in g.cover_groups : Cardinality(b) >= 2
          /\ \A b \in g.cover_groups : \A p \in b :
                /\ \E q \in PathsOf(g.filepath_to_tracks) \ {p} : SizeKey(q) = SizeKey(p)
                /\ \A q \in b : mg_bytes[q] = mg_bytes[p]
    /\ \A w \in Workers : mg_w_pc[w] = "analyse" =>
          LET unique_covers == PathsOf(mg_w_tracks[w]) IN
          \A p \in FilesToHash(unique_covers) :
              \E q \in (unique_covers \cap mg_files) \ {p} : SizeKey(q) = SizeKey(p)
    /\ \A b \in mc_buckets : Cardinality(b) >= 2
    /\ files_to_delete # {} => \A p \in files_to_delete : \A u \in mc_updates \cup mc_txw :
                                  mg_bytes[u[2]] = mg_bytes[p]
    /\ \A t \in MergeTracks :
          mg_cover[t] \notin {t, NoCover, NoRow} => mg_bytes[mg_cover[t]] = mg_bytes[t]

\* the consumer works on a group whose bucket of two it has taken
C26_Witness ==
    /\ mc_pc = "lock"
    /\ mc_group # NoGroup
    /\ Cardinality(files_to_delete) >= 1
    /\ \E b \in mc_group.cover_groups : Cardinality(b) >= 2 /\ files_to_delete \subseteq b

(***************************************************************************)
(* Properties of the library commands around a merge                       *)
(***************************************************************************)
\* a step of cleanup_orphaned_covers
Reconciled == Len(oc_results') > Len(oc_results)

C28_ReconcilerKeepsReferenced ==
    [][Reconciled =>
         \A p \in mg_files \ mg_files' : \A t \in Rows : mg_cover[t] # p]_vars

(***************************************************************************)
(* Properties of the ETA                                                   *)
(***************************************************************************)
\* C29: in every snapshot the ETA is non-negative and is 0 when current
\* equals total, and with every item taking the same time no snapshot has
\* a greater ETA than the snapshot before it.
C29_EtaSanity ==
    /\ \A i \in 1..Len(eta_snaps) :
          /\ eta_snaps[i].estimated_time_remaining_ms >= 0
          /\ eta_snaps[i].current = eta_snaps[i].total =>
                eta_snaps[i].estimated_time_remaining_ms = 0
    /\ \A i \in 1..(Len(eta_snaps) - 1) :
          eta_snaps[i + 1].estimated_time_remaining_ms
            <= eta_snaps[i].estimated_time_remaining_ms

(***************************************************************************)
(* Properties of the batches of migrate_covers_to_files                    *)
(***************************************************************************)
FillInBatch == fl_pc \in {"begin", "update", "commit"}

\* C30: a transaction is open only for a batch that holds a result; a batch
\* never holds more results than the target computed for it, so never more
\* than 200; at most one transaction is open; the transactions begun are the
\* batches committed and the one in progress, and the batch in progress has
\* had exactly one sizing; no result leaves the channel while a transaction
\* is open; and each commit closes the one transaction and emits a snapshot
\* whose batch_size is the number of results of the batch.
C30_OneTransactionPerBatch ==
    /\ [](/\ fl_tx_open \in {0, 1}
          /\ fl_tx_open = 1 => fl_pending_len >= 1
          /\ fl_tx_open = 1 <=> fl_pc \in {"update", "commit"}
          /\ fl_pc \in {"collect", "begin", "update", "commit"} =>
                fl_pending_len <= fl_batch_size
          /\ fl_pending_len <= 200
          /\ fl_begins = fl_batches_sent + fl_tx_open
          /\ FillInBatch => fl_sizings = fl_batches_sent + 1
          /\ fl_sizings \in {fl_batches_sent, fl_batches_sent + 1})
    /\ [][fl_tx_open = 1 => fl_rx_len' >= fl_rx_len]_vars
    /\ [][fl_begins' > fl_begins => fl_pending_len >= 1]_vars
    /\ [][fl_batches_sent' > fl_batches_sent =>
            /\ fl_tx_open = 1
            /\ fl_tx_open' = 0
            /\ fl_batches_sent' = fl_batches_sent + 1
            /\ fl_progress'.batch_size = fl_pending_len
            /\ fl_progress'.current_batch = fl_batches_sent']_vars

\* a transaction is open on a batch filled to its target while more results
\* wait in the channel, one of its rows refused
C30_Witness ==
    /\ fl_pc = "commit"
    /\ fl_tx_open = 1
    /\ fl_pending_len = fl_batch_size
    /\ fl_rx_len > 0
    /\ fl_batch_items_len < fl_pending_len

(***************************************************************************)
(* Properties of the cover files' format and path                          *)
(***************************************************************************)
\* C31: the format detected is Jpeg exactly for data of four bytes or more
\* that start FF D8 FF, Png exactly for data that start 89 50 4E 47, Webp
\* exactly for data of twelve bytes or more with RIFF at 0 and WEBP at 8,
\* and None for everything else; with None the call fails and writes
\* nothing; a call that succeeds has written exactly the file named by
\* the kind's directory, the decimal id and jpg, png or webp by format.
C31_SniffAndPath ==
    call_pc = "done" =>
        LET data == call_args.data
            at(i) == IF i <= Len(data) THEN data[i] ELSE -1
            jpeg == Len(data) >= 4 /\ at(1) = 255 /\ at(2) = 216 /\ at(3) = 255
            png == at(1) = 137 /\ at(2) = 80 /\ at(3) = 78 /\ at(4) = 71
            webp == /\ Len(data) >= 12
                    /\ <<at(1), at(2), at(3), at(4)>> = <<82, 73, 70, 70>>
                    /\ <<at(9), at(10), at(11), at(12)>> = <<87, 69, 66, 80>>
            ext == IF jpeg THEN "jpg" ELSE IF png THEN "png" ELSE "webp"
        IN /\ call_result.format = "Jpeg" <=> jpeg
           /\ call_result.format = "Png" <=> png
           /\ call_result.format = "Webp" <=> webp
           /\ call_result.format = "None" <=> ~(jpeg \/ png \/ webp)
           /\ Len(data) < 4 => call_result.format = "None"
           /\ call_result.format = "None" =>
                 call_result.ret = <<"Err">> /\ call_result.written = {}
           /\ call_result.ret # <<"Err">> =>
                 /\ call_result.ret[2].dir
                      = (IF call_args.kind = "track" THEN "tracks" ELSE "albums")
                 /\ ParseI64(call_result.ret[2].stem) = call_args.id
                 /\ call_result.ret[2].ext = ext
                 /\ call_result.written = {call_result.ret[2]}

\* a WebP of exactly twelve bytes was accepted and written for an album
C31_Witness ==
    /\ call_pc = "done"
    /\ call_args.kind = "album"
    /\ Len(call_args.data) = 12
    /\ call_result.format = "Webp"
    /\ call_result.ret # <<"Err">>
    /\ call_result.ret[2].ext = "webp"

(***************************************************************************)
(* Properties of the directory walk                                        *)
(***************************************************************************)
\* the extension of the entry's name is, in lower case, a supported one
HasSupportedExtension ==
    LET ext == PathExtension(call_args.name)
    IN ext # NoExtension /\ to_lowercase(ext[2]) \in SUPPORTED_EXTENSIONS

\* C32 as stated: a file is enumerated exactly when its extension, without
\* regard to case, is flac, mp3, wav, ogg, m4a or aac.
C32_AcceptsBySupportedExtension ==
    call_pc = "done" =>
        (call_result.audio_files = <<call_args.name>>
           <=> (call_args.is_file /\ HasSupportedExtension))

\* C32: a file is enumerated exactly when its path is Unicode and its
\* extension, without regard to case, is flac, mp3, wav, ogg, m4a or aac;
\* a file with such an extension whose path is not Unicode goes to the
\* errors; nothing else is enumerated or reported.
C32_AcceptsUnicodeBySupportedExtension ==
    call_pc = "done" =>
        /\ call_result.audio_files = <<call_args.name>>
              <=> (call_args.is_file /\ HasSupportedExtension /\ call_args.utf8 = "valid")
        /\ call_result.audio_files \in {<<>>, <<call_args.name>>}
        /\ call_result.errors # <<>>
              => (call_args.is_file /\ HasSupportedExtension /\ call_args.utf8 = "stem")
        /\ ~HasSupportedExtension => call_result.audio_files = <<>>

\* a file named with an upper-case supported extension after a dotted stem
\* was enumerated
C32_Witness ==
    /\ call_pc = "done"
    /\ call_args.name = <<"s", ".", "t", ".", "F", "L", "A", "C">>
    /\ call_result.audio_files = <<call_args.name>>

(***************************************************************************)
(* Properties of the extracted counter                                     *)
(***************************************************************************)
\* pool threads whose send has returned and whose fetch_add is still to come
SendsReturnedUncounted == Cardinality({w \in Workers : w_pc[w] = "inc"})

\* pool threads in tx.send, blocked or about to call it
SendsPending == Cardinality({w \in Workers : w_pc[w] = "send"})

\* C33: in a run the extracted counter never exceeds the number of sends
\* that have returned, which never exceeds the enumerated total less the
\* items not yet sent; the counter moves only by the increment of a pool
\* thread whose send has returned; and when the assembler, after a timeout,
\* reads a counter of at least the total, no pool thread is in a send or
\* has an item still to take.
C33_CounterBehindSends ==
    /\ [](total_items > 0 =>
            /\ extracted_count + SendsReturnedUncounted + SendsPending + Cardinality(todo)
                  <= total_items
            /\ (a_pc = "timeout" /\ extracted_count >= total_items)
                  => (SendsPending = 0 /\ todo = {}))
    /\ [][/\ extracted_count' > extracted_count
             => \E w \in Workers : /\ w_pc[w] = "inc"
                                   /\ w_pc'[w] = "idle"
                                   /\ extracted_count' = extracted_count + 1
          /\ \A w \in Workers : (w_pc'[w] = "inc" /\ w_pc[w] # "inc") => w_pc[w] = "send"]_vars

\* the assembler is about to read, after a timeout, a counter that has
\* reached the total of a run of two items
C33_Witness ==
    /\ a_pc = "timeout"
    /\ total_items = MaxItems
    /\ extracted_count >= total_items

(***************************************************************************)
(* Properties of the counts of a migration run                             *)
(***************************************************************************)
RECURSIVE ItemsOfSnapshots(_)
ItemsOfSnapshots(log) ==
    IF log = <<>> THEN <<>>
    ELSE ItemsOfSnapshots(SubSeq(log, 1, Len(log) - 1))
           \o (IF log[Len(log)].type = "batch" THEN log[Len(log)].items ELSE <<>>)

\* C34: every snapshot and every returned summary of a migration run has
\* current (processed) = tracks_migrated + albums_migrated <= total, the
\* total is the enumerated one in every snapshot, and no result is counted
\* twice: the items of the run's snapshots are distinct and as many as the
\* latest current.
C34_CountsAddUp ==
    /\ \A k \in 1..Len(events) :
          /\ events[k].current = events[k].tracks_migrated + events[k].albums_migrated
          /\ events[k].current <= events[k].total
          /\ events[k].total = total_items
    /\ \A k \in 1..Len(results) :
          /\ results[k].processed = results[k].tracks_migrated + results[k].albums_migrated
          /\ results[k].processed <= results[k].total
    /\ LET counted == ItemsOfSnapshots(events) IN
         /\ \A i, j \in 1..Len(counted) : counted[i] = counted[j] => i = j
         /\ \A k \in SnapshotIndexes :
               Len(ItemsOfSnapshots(SubSeq(events, 1, k))) = events[k].current

\* a run of two rows returned a summary of one migrated row after two
\* snapshots, the row update of one batch having failed
C34_Witness ==
    /\ m_pc = "returned"
    /\ Len(events) = 3
    /\ events[3].type = "complete"
    /\ results[Len(results)].total = MaxItems
    /\ results[Len(results)].processed = 1
    /\ results[Len(results)].errors # <<>>

C37_BothFinish ==
    /\ <>(pl_asm = "returned")
    /\ <>(pl_consumer = "done")

(***************************************************************************)
(* Properties of clear_base64_covers                                       *)
(***************************************************************************)
HasCover(row) == row.blob # "null" \/ row.path # NullPath

\* C38: through migrations and calls of clear_base64_covers in any order a
\* row keeps a blob or a path once it has one; a blob is removed only from
\* a row whose path is not null, and the step that removes it changes no
\* path; a row whose blob cannot be transformed never gets a path, and the
\* rows a returned run lists as failed still have their blob and no path.
C38_ClearKeepsACover ==
    /\ [][\A it \in Items :
            /\ HasCover(db[it]) => HasCover(db'[it])
            /\ db'[it].blob # db[it].blob
                 => /\ db[it].path # NullPath
                    /\ db'[it].blob = "null"
                    /\ \A other \in Items : db'[other].path = db[other].path]_vars
    /\ [](\A it \in Items : db[it].blob = "bad" => it \in Eligible(db))
    /\ [](m_pc = "returned" /\ results # <<>>
            => \A k \in 1..Len(results[Len(results)].errors) :
                 results[Len(results)].errors[k] \in Eligible(db))

\* a clear after a run that migrated one row and failed to update the
\* other: the first has its new path and no blob, the second its blob and
\* no path
C38_Witness ==
    /\ m_pc = "returned"
    /\ results[Len(results)].errors # <<>>
    /\ \E it \in Items : db[it].blob = "null" /\ db[it].path = NewPath(it)
    /\ \E it \in Items : db[it].blob = "good" /\ db[it].path = NullPath

(***************************************************************************)
(* Properties of the path sync                                             *)
(***************************************************************************)
\* the pairs of a directory whose id has a row
SyncMatched(table) ==
    Cardinality({k \in 1..Len(call_args[table]) : SyncHasRow(call_args[table][k])})

\* the rows of a table that some pair of its directory names
SyncRowsNamed(table) ==
    Cardinality({call_args[table][k] : k \in {j \in 1..Len(call_args[table]) :
                                                SyncHasRow(call_args[table][j])}})

\* the chunks, transactions and events of a run
SyncChunksAndEvents ==
    /\ Len(call_result.events) = call_result.commits
    /\ call_result.begins \in {call_result.commits, call_result.commits + 1}
    /\ call_result.begins > call_result.commits <=> call_pc = "failed"
    /\ \A k \in 1..Len(call_result.events) :
         /\ call_result.events[k].batch_size \in 1..BATCH_SIZE
         /\ call_result.events[k].current <= call_result.events[k].total
         /\ call_result.events[k].total = SyncTotalItems
         /\ k > 1 => call_result.events[k].current >= call_result.events[k - 1].current
    /\ call_pc = "done" =>
         call_result.commits = (Len(call_args.tracks) + BATCH_SIZE - 1) \div BATCH_SIZE
                                 + (Len(call_args.albums) + BATCH_SIZE - 1) \div BATCH_SIZE

\* C39 as stated: chunks of at most 100 pairs, one transaction and then one
\* event per committed chunk, `current` never decreasing and at most
\* `total`, and the returned processed is the number of rows updated.
C39_ProcessedIsRowsUpdated ==
    /\ SyncChunksAndEvents
    /\ call_pc = "done" => call_result.ret[2].processed = Cardinality(call_result.updated)

\* C39: chunks of at most 100 pairs, one transaction and then one event per
\* committed chunk, `current` never decreasing and at most `total`; the
\* returned processed is the number of pairs whose UPDATE changed a row, so
\* a pair whose id has no row or whose UPDATE failed is not counted and a
\* row named by two files is counted twice.
C39_ProcessedIsPairsApplied ==
    /\ SyncChunksAndEvents
    /\ call_pc = "done" =>
         /\ call_result.ret[2].processed + call_result.errors
              >= SyncMatched("tracks") + SyncMatched("albums")
         /\ call_result.ret[2].processed <= SyncMatched("tracks") + SyncMatched("albums")
         /\ call_result.errors = 0 =>
              call_result.ret[2].processed = SyncMatched("tracks") + SyncMatched("albums")
         /\ call_result.ret[2].processed >= Cardinality(call_result.updated)
         /\ call_result.ret[2].processed = call_result.processed
         /\ Len(call_result.events) > 0 =>
              call_result.events[Len(call_result.events)].current
                = call_result.ret[2].processed

\* a sync of two chunks of track covers, one of them named after no row,
\* and of album art returned
C39_Witness ==
    /\ call_pc = "done"
    /\ Len(call_args.tracks) = BATCH_SIZE + 1
    /\ call_args.tracks[BATCH_SIZE + 1] = 0
    /\ Len(call_args.albums) = 1
    /\ call_result.ret[2].processed = BATCH_SIZE + 1
    /\ Len(call_result.events) = 3

====
